---------------------------- MODULE Spec2Model ----------------------------
(***************************************************************************)
(* A model of the kuberhealthy deployment check: main() and its interrupt  *)
(* handler, CheckRunner.run() and the operations it sequences (orphan      *)
(* reconciliation, deployment and service create-and-wait, the HTTP probe, *)
(* the rolling update, cleanup and the two delete-and-wait loops), run     *)
(* against a cluster whose API calls may fail and whose controllers make   *)
(* progress on their own.                                                  *)
(*                                                                         *)
(* Errors are modelled by their text: an error is the set of the message   *)
(* fragments its fmt.Errorf chain holds, and nil is the empty set.         *)
(***************************************************************************)
EXTENDS Integers, FiniteSets, Sequences, TLC

VARIABLES
    cfg,        \* the parsed CheckConfig (fixed for the process lifetime)
    obj,        \* cluster: [Kinds -> ObjStates], the object stored under the configured name
    svcIP,      \* cluster: spec.clusterIP of the stored service ("" when unassigned)
    depGen,     \* cluster: metadata.generation of the stored deployment (0 when absent)
    ctxDone,    \* ctx.Done() of the context main() built is closed (deadline or cancel())
    pc,         \* position of the main goroutine
    loc,        \* local variables of the main goroutine (run() and its callees)
    hpc,        \* position of the handleInterrupts goroutine
    cl,         \* one cleanup() activation per goroutine that can run it
    proc,       \* the process: [exited, exitBy, reports]
    obs,        \* history of what run() has done and observed (read by the properties only)
    harness     \* history of the cleanup driver of SpecCleanup

vars == <<cfg, obj, svcIP, depGen, ctxDone, pc, loc, hpc, cl, proc, obs, harness>>

(***************************************************************************)
(* Bounds of the model.                                                    *)
(***************************************************************************)
\* API-call counters of one delete-and-wait activation saturate here.
MaxCount == 2
\* cleanup() calls the driver of SpecCleanup makes.
MaxCalls == 2
\* The number of bits of the model's int32 (32 in the program).
WordBits == 4
\* The largest replica count drawn that fits the model's int32.
MaxReplicas == 5
\* where the clock of the pod-error monitor stops counting, in milliseconds
\* (past every deadline drawn)
MaxElapsed == 13000

(***************************************************************************)
(* Domains.                                                                *)
(***************************************************************************)
Kinds == {"service", "deployment"}
ObjStates == {"absent", "present", "terminating"}
\* "main": cleanup() called synchronously by run() and its callees;
\* "orphan": runCleanupAsync started by cleanupOrphans;
\* "intr": runCleanupAsync started by handleInterrupts.
Threads == {"main", "orphan", "intr"}
IPs == {"10.0.0.1"}

\* defaultCheckDeploymentReplicas, the replica count when the environment sets none
defaultCheckDeploymentReplicas == 2
defaultCheckContainerPort == 8080
defaultCheckLoadBalancerPort == 80
defaultCheckImageURL == "nginxinc/nginx-unprivileged:1.17.8"
defaultCheckImageURLB == "nginxinc/nginx-unprivileged:1.17.9"
\* defaultCheckTimeLimit and defaultShutdownGracePeriod, in milliseconds
defaultCheckTimeLimit == 900000
defaultShutdownGracePeriod == 30000

\* The configuration parseConfig returns when the environment sets nothing
\* (the fields the model reads).
DefaultConfig ==
    [RollingUpdate |-> FALSE,
     CheckDeploymentReplicas |-> defaultCheckDeploymentReplicas,
     CheckImageURL |-> defaultCheckImageURL,
     CheckImageURLRollTo |-> defaultCheckImageURLB,
     CheckContainerPort |-> defaultCheckContainerPort,
     CheckLoadBalancerPort |-> defaultCheckLoadBalancerPort,
     CheckDeploymentName |-> "deployment-deployment",
     CheckServiceName |-> "deployment-svc",
     CheckNamespace |-> "kuberhealthy",
     CheckTimeLimit |-> defaultCheckTimeLimit,
     ShutdownGracePeriod |-> defaultShutdownGracePeriod]

NoErr == {}
Min(a, b) == IF a < b THEN a ELSE b
Bump(n) == Min(n + 1, MaxCount)

(***************************************************************************)
(* The cluster client.  A call made with a context that is already done    *)
(* fails before it reaches the server; any call may fail for reasons of    *)
(* its own (transport, admission, not-found, already-exists).              *)
(***************************************************************************)
ApiOutcomes(canSucceed) == IF canSucceed /\ ~ctxDone THEN {TRUE, FALSE} ELSE {FALSE}

\* The stored object after a delete call that the server accepted: it is
\* marked for deletion and disappears when the cluster finalizes it.
Deleted(k) == [obj EXCEPT ![k] = "terminating"]

IdleCleanup ==
    [pc |-> "idle", dpc |-> "none", site |-> "none", ctxAtCall |-> FALSE,
     serviceErr |-> FALSE, deploymentErr |-> FALSE, res |-> NoErr,
     \* the delete-and-wait that is running or has just returned
     derr |-> FALSE, entryAbsent |-> FALSE, nDel |-> 0, nList |-> 0, nListOk |-> 0,
     lastList |-> "none",
     \* what this activation has done so far, per kind
     attempted |-> {}, timedOut |-> {}, seenAbsent |-> {}]

\* cleanup(ctx) is entered by goroutine t from call site `site`; `done` is
\* whether the context it is given is already done.
EnterCleanup(t, site, done) ==
    [cl EXCEPT ![t] = [IdleCleanup EXCEPT !.pc = "service", !.dpc = "del",
                                          !.site = site, !.ctxAtCall = done]]

(***************************************************************************)
(* deleteService / deleteDeployment: one Delete call for the configured    *)
(* name (grace period 1 s); `ok` is whether the server accepted it.        *)
(***************************************************************************)
deleteService(ok) == IF ok THEN Deleted("service") ELSE obj

deleteDeployment(ok) == IF ok THEN Deleted("deployment") ELSE obj

DeleteCall(k, ok) == IF k = "service" THEN deleteService(ok) ELSE deleteDeployment(ok)

\* What a delete call can answer: it succeeds only on a stored object.
DeleteOutcomes(k) == ApiOutcomes(obj[k] # "absent")

(***************************************************************************)
(* deleteServiceAndWait / deleteDeploymentAndWait.  The two functions are  *)
(* the same loop over their own resource kind k; goroutine t runs it.      *)
(*   del   : the first delete call (its error is only logged)              *)
(*   check : top of the loop, select on ctx.Done() with a default          *)
(*   list  : after the 5 s sleep, List by field selector metadata.name     *)
(*   redel : the object was listed, delete it again                        *)
(*   ret   : returned; derr is whether the timeout error was returned      *)
(* lastList is the answer of the latest List call, until the delete call   *)
(* that follows a "listed" answer turns it into "redeleted".               *)
(***************************************************************************)
DeleteFirst(t, k) ==
    /\ cl[t].dpc = "del"
    /\ \E ok \in DeleteOutcomes(k) :
          /\ obj' = DeleteCall(k, ok)
          /\ cl' = [cl EXCEPT ![t] = [@ EXCEPT !.dpc = "check", !.nDel = 1, !.nList = 0,
                                               !.nListOk = 0, !.lastList = "none",
                                               !.derr = FALSE,
                                               !.entryAbsent = (obj[k] = "absent"),
                                               !.attempted = @ \cup {k}]]

\* A faulty variant of AtLoopTop that does not look at the context.
AtLoopTopNoContext(c, k, done) == [c EXCEPT !.dpc = "list"]

\* The top of the loop: return the timeout error when ctx is done, else sleep.
AtLoopTop(c, k, done) ==
    IF done THEN [c EXCEPT !.dpc = "ret", !.derr = TRUE, !.timedOut = @ \cup {k}]
    ELSE [c EXCEPT !.dpc = "list"]

DeleteLoopTop(t, k) ==
    /\ cl[t].dpc = "check"
    /\ cl' = [cl EXCEPT ![t] = AtLoopTop(@, k, ctxDone)]
    /\ obj' = obj

\* A faulty variant of AfterList that deletes again whenever the List call
\* did not show the object gone, a failed List included.
AfterListRedeleteOnError(c, k, ok, listed) ==
    IF ok /\ ~listed
    THEN [c EXCEPT !.dpc = "ret", !.derr = FALSE, !.lastList = "absent",
                   !.nList = Bump(@), !.nListOk = Bump(@), !.seenAbsent = @ \cup {k}]
    ELSE [c EXCEPT !.dpc = "redel", !.lastList = IF ok THEN "listed" ELSE "fail",
                   !.nList = Bump(@), !.nListOk = IF ok THEN Bump(@) ELSE @]

\* A faulty variant of AfterList that takes a failed List for an empty one.
AfterListErrorIsAbsent(c, k, ok, listed) ==
    IF ok /\ listed
    THEN [c EXCEPT !.dpc = "redel", !.lastList = "listed", !.nList = Bump(@),
                   !.nListOk = Bump(@)]
    ELSE [c EXCEPT !.dpc = "ret", !.derr = FALSE,
                   !.lastList = IF ok THEN "absent" ELSE "fail",
                   !.nList = Bump(@), !.nListOk = IF ok THEN Bump(@) ELSE @]

\* The state of the activation after the List call answered: `ok` is
\* listErr == nil, `listed` is whether an item has the configured name.
AfterList(c, k, ok, listed) ==
    IF ~ok THEN [c EXCEPT !.dpc = "check", !.lastList = "fail", !.nList = Bump(@)]
    ELSE IF listed
    THEN [c EXCEPT !.dpc = "redel", !.lastList = "listed", !.nList = Bump(@),
                   !.nListOk = Bump(@)]
    ELSE [c EXCEPT !.dpc = "ret", !.derr = FALSE, !.lastList = "absent",
                   !.nList = Bump(@), !.nListOk = Bump(@), !.seenAbsent = @ \cup {k}]

DeleteList(t, k) ==
    /\ cl[t].dpc = "list"
    /\ \E ok \in ApiOutcomes(TRUE) :
          cl' = [cl EXCEPT ![t] = AfterList(@, k, ok, obj[k] # "absent")]
    /\ obj' = obj

DeleteAgain(t, k) ==
    /\ cl[t].dpc = "redel"
    /\ \E ok \in DeleteOutcomes(k) :
          /\ obj' = DeleteCall(k, ok)
          /\ cl' = [cl EXCEPT ![t] = [@ EXCEPT !.dpc = "check", !.nDel = Bump(@),
                                               !.lastList = "redeleted"]]

DeleteAndWait(t, k) ==
    /\ ~proc.exited
    /\ cl[t].pc = k
    /\ \/ DeleteFirst(t, k)
       \/ DeleteLoopTop(t, k)
       \/ DeleteList(t, k)
       \/ DeleteAgain(t, k)
    /\ UNCHANGED <<cfg, svcIP, depGen, ctxDone, pc, loc, hpc, proc, obs, harness>>

deleteServiceAndWait(t) == DeleteAndWait(t, "service")

deleteDeploymentAndWait(t) == DeleteAndWait(t, "deployment")

(***************************************************************************)
(* cleanup(ctx): the service, then the deployment, then one error built    *)
(* from the failures.                                                      *)
(***************************************************************************)
ServiceErrText == {"error cleaning up service", "timed out while waiting for service to delete"}
DeploymentErrText == {"error cleaning up deployment", "timed out while waiting for deployment to delete"}

\* resultErr of cleanup() from serviceErr != nil and deploymentErr != nil
CleanupResult(serviceErr, deploymentErr) ==
    (IF serviceErr THEN ServiceErrText ELSE {}) \cup
    (IF deploymentErr THEN DeploymentErrText ELSE {})

\* A faulty variant of CleanupAfterService that returns the service error at
\* once instead of going on to the deployment.
CleanupAfterServiceStopOnError(c) ==
    IF c.derr
    THEN [c EXCEPT !.serviceErr = TRUE, !.pc = "done", !.res = ServiceErrText]
    ELSE [c EXCEPT !.serviceErr = FALSE, !.pc = "deployment", !.dpc = "del"]

\* deleteServiceAndWait returned: record serviceErr, go on to the deployment.
CleanupAfterService(c) ==
    [c EXCEPT !.serviceErr = c.derr, !.pc = "deployment", !.dpc = "del"]

\* deleteDeploymentAndWait returned: record deploymentErr, build the result.
CleanupAfterDeployment(c) ==
    [c EXCEPT !.deploymentErr = c.derr, !.pc = "done",
              !.res = CleanupResult(c.serviceErr, c.derr)]

cleanup(t) ==
    \/ deleteServiceAndWait(t)
    \/ /\ ~proc.exited
       /\ cl[t].pc = "service" /\ cl[t].dpc = "ret"
       /\ cl' = [cl EXCEPT ![t] = CleanupAfterService(@)]
       /\ UNCHANGED <<cfg, obj, svcIP, depGen, ctxDone, pc, loc, hpc, proc, obs, harness>>
    \/ deleteDeploymentAndWait(t)
    \/ /\ ~proc.exited
       /\ cl[t].pc = "deployment" /\ cl[t].dpc = "ret"
       /\ cl' = [cl EXCEPT ![t] = CleanupAfterDeployment(@)]
       /\ UNCHANGED <<cfg, obj, svcIP, depGen, ctxDone, pc, loc, hpc, proc, obs, harness>>

(***************************************************************************)
(* The environment: the context deadline passes, and the cluster removes   *)
(* an object that was marked for deletion.                                 *)
(***************************************************************************)
CtxExpire ==
    /\ ~proc.exited
    /\ pc # "createKubeClient"
    /\ ~ctxDone
    /\ ctxDone' = TRUE
    /\ UNCHANGED <<cfg, obj, svcIP, depGen, pc, loc, hpc, cl, proc, obs, harness>>

ClusterFinalize ==
    /\ ~proc.exited
    /\ \E k \in Kinds :
          /\ obj[k] = "terminating"
          /\ obj' = [obj EXCEPT ![k] = "absent"]
          /\ svcIP' = IF k = "service" THEN "" ELSE svcIP
          /\ depGen' = IF k = "deployment" THEN 0 ELSE depGen
    /\ UNCHANGED <<cfg, ctxDone, pc, loc, hpc, cl, proc, obs, harness>>

(***************************************************************************)
(* SpecCleanup: cleanup() driven on its own.  The cluster starts in any    *)
(* state; a driver calls cleanup(ctx) MaxCalls times in a row while the    *)
(* context may expire and the cluster finalizes deletions.                 *)
(***************************************************************************)
\* A nil *appsv1.Deployment, in the shape of the status a watch event carries.
NilDeployment ==
    [nil |-> TRUE, conditions |-> {}, replicas |-> 0, updatedReplicas |-> 0,
     availableReplicas |-> 0, readyReplicas |-> 0, unavailableReplicas |-> 0,
     observedGeneration |-> 0]

\* A nil *corev1.Service.
NilService == [nil |-> TRUE, ClusterIP |-> ""]

InitLoc ==
    [serviceExists |-> FALSE, deploymentExists |-> FALSE, serviceIP |-> "",
     probe |-> 0, attempt |-> 0, elapsed |-> 0, gets |-> 0, slept |-> 0,
     response |-> "none", deployment |-> NilDeployment, service |-> NilService,
     listFailed |-> FALSE, err |-> NoErr]

InitObs ==
    [ready |-> FALSE, orphans |-> [how |-> "none", err |-> NoErr], available |-> FALSE, serviceReady |-> FALSE,
     rolled |-> FALSE, probesOK |-> 0, calls |-> {}, probed |-> FALSE, failure |-> NoErr,
     cleanedAfterFailure |-> FALSE, cleanupFailed |-> FALSE, fetchedFor |-> 0,
     probedWith |-> <<0, 0>>, returned |-> FALSE]

InitProc == [exited |-> FALSE, exitBy |-> "none", reports |-> 0, verdict |-> "none"]

InitHarness == [calls |-> 0, prevDone |-> FALSE, prevRes |-> NoErr, objAtCall |-> [k \in Kinds |-> "absent"]]

InitCleanup ==
    /\ cfg = DefaultConfig
    /\ obj \in [Kinds -> ObjStates]
    /\ svcIP = ""
    /\ depGen = 0
    /\ ctxDone = FALSE
    /\ pc = "driver"
    /\ loc = InitLoc
    /\ hpc = "off"
    /\ cl = [t \in Threads |-> IdleCleanup]
    /\ proc = InitProc
    /\ obs = InitObs
    /\ harness = InitHarness

DriverCall ==
    /\ pc = "driver"
    /\ cl["main"].pc = "idle"
    /\ harness.calls < MaxCalls
    /\ cl' = EnterCleanup("main", "driver", ctxDone)
    /\ harness' = [harness EXCEPT !.calls = @ + 1, !.objAtCall = obj]
    /\ UNCHANGED <<cfg, obj, svcIP, depGen, ctxDone, pc, loc, hpc, proc, obs>>

DriverReturn ==
    /\ pc = "driver"
    /\ cl["main"].pc = "done"
    /\ harness' = [harness EXCEPT !.prevDone = TRUE, !.prevRes = cl["main"].res]
    /\ cl' = [cl EXCEPT !["main"].pc = "idle"]
    /\ UNCHANGED <<cfg, obj, svcIP, depGen, ctxDone, pc, loc, hpc, proc, obs>>

NextCleanup ==
    \/ DriverCall
    \/ DriverReturn
    \/ cleanup("main")
    \/ CtxExpire
    \/ ClusterFinalize

SpecCleanup == InitCleanup /\ [][NextCleanup]_vars

(***************************************************************************)
(* The full program.                                                       *)
(***************************************************************************)
\* requestBackoffTimeout, in seconds
requestBackoffTimeout == 180
\* requestBackoffMaxRetries
requestBackoffMaxRetries == 10
\* The longest one HTTP GET takes, in seconds (the shortest takes none).
MaxGetSeconds == 60

GetDurations == {0, MaxGetSeconds}
\* What one GET can answer: a status code, or a transport error.
Responses == {"200", "502", "500", "transport error", "no such host"}

\* Variables no step of the main goroutine touches.
others == <<cfg, ctxDone, hpc, proc, harness>>
cluster == <<obj, svcIP, depGen>>

\* The first failure of a step of run() is remembered with its text.
Failed(o, text) == [o EXCEPT !.failure = IF @ = NoErr THEN text ELSE @]

\* The main goroutine calls cleanup(ctx).
CallCleanup(site, o) ==
    /\ cl' = EnterCleanup("main", site, ctxDone)
    /\ obs' = [o EXCEPT !.cleanedAfterFailure = @ \/ (o.failure # NoErr)]

\* cleanup(ctx) has returned to the main goroutine with `res`.
CleanupReturned == cl["main"].pc = "done"
TakeCleanup(o) ==
    /\ cl' = [cl EXCEPT !["main"].pc = "idle"]
    /\ obs' = [o EXCEPT !.cleanupFailed = @ \/ (o.failure # NoErr /\ cl["main"].res # NoErr)]

(***************************************************************************)
(* deploymentAvailable and rolledPodsAreReady, over the status a watch     *)
(* event carries.                                                          *)
(***************************************************************************)
\* int32(n) of a Go int: the low WordBits bits of n, read as a signed number.
\* The width is scaled down from 32 to WordBits.
Int32(n) ==
    LET r == n % (2 ^ WordBits) IN
    IF r >= 2 ^ (WordBits - 1) THEN r - 2 ^ WordBits ELSE r

deploymentAvailable(d, replicas) ==
    /\ ~d.nil
    /\ \E condition \in d.conditions :
          /\ condition.type = "Available"
          /\ condition.status = "True"
          /\ d.replicas = Int32(replicas)
          /\ d.availableReplicas = Int32(replicas)
          /\ d.readyReplicas = Int32(replicas)
          /\ d.observedGeneration = 1

\* A faulty variant of rolledPodsAreReady that does not look at the
\* observed generation.
rolledPodsAreReadyAnyGeneration(d, replicas) ==
    /\ ~d.nil
    /\ d.replicas = Int32(replicas)
    /\ d.updatedReplicas = Int32(replicas)
    /\ d.availableReplicas = Int32(replicas)
    /\ d.readyReplicas = Int32(replicas)
    /\ ~(d.unavailableReplicas >= 1)

rolledPodsAreReady(d, replicas) ==
    /\ ~d.nil
    /\ d.replicas = Int32(replicas)
    /\ d.updatedReplicas = Int32(replicas)
    /\ d.availableReplicas = Int32(replicas)
    /\ d.readyReplicas = Int32(replicas)
    /\ ~(d.unavailableReplicas >= 1)
    /\ ~(d.observedGeneration <= 1)

\* A faulty variant of serviceAvailable that takes every service for available.
serviceAvailableAlways(clusterIP) == TRUE

serviceAvailable(clusterIP) == clusterIP # ""

\* The deployment statuses a watch event can carry while the stored
\* deployment has metadata.generation gen.
ConditionSets ==
    { {}, {[type |-> "Available", status |-> "True"]},
      {[type |-> "Available", status |-> "False"], [type |-> "Progressing", status |-> "True"]} }
ReplicaCounts == {defaultCheckDeploymentReplicas - 1, defaultCheckDeploymentReplicas}
DeploymentEvents(gen) ==
    [nil : {FALSE}, conditions : ConditionSets, replicas : ReplicaCounts, updatedReplicas : ReplicaCounts,
     availableReplicas : ReplicaCounts, readyReplicas : ReplicaCounts,
     unavailableReplicas : {0, 1}, observedGeneration : 1..gen]

(***************************************************************************)
(* waitForKuberhealthyReady                                                *)
(***************************************************************************)
waitForKuberhealthyReady ==
    /\ ~proc.exited
    /\ pc = "waitReady"
    /\ \E ok \in BOOLEAN :
          /\ loc' = [loc EXCEPT !.err = IF ok THEN NoErr ELSE {"kuberhealthy is not ready"}]
          /\ obs' = [obs EXCEPT !.ready = ok]
    /\ pc' = "r_ready"
    /\ UNCHANGED <<cluster, cl, others>>

(***************************************************************************)
(* cleanupOrphans, with findPreviousService and findPreviousDeployment     *)
(***************************************************************************)
\* (exists, err) of findPreviousService / findPreviousDeployment, as the bool
findPreviousService(ok) == ok /\ obj["service"] # "absent"

findPreviousDeployment(ok) == ok /\ obj["deployment"] # "absent"

\* A faulty variant of OrphansFound that forgets the deployment.
OrphansFoundServiceOnly(serviceExists, deploymentExists) == serviceExists

OrphansFound(serviceExists, deploymentExists) == serviceExists \/ deploymentExists

PreCheckTimeout == {"failed to perform pre-check cleanup within timeout"}

CleanupOrphansFindService ==
    /\ ~proc.exited
    /\ pc = "co_findService"
    /\ \E ok \in ApiOutcomes(TRUE) :
          loc' = [loc EXCEPT !.serviceExists = findPreviousService(ok), !.listFailed = ~ok]
    /\ pc' = "co_findDeployment"
    /\ UNCHANGED <<cluster, cl, obs, others>>

CleanupOrphansFindDeployment ==
    /\ ~proc.exited
    /\ pc = "co_findDeployment"
    /\ \E ok \in ApiOutcomes(TRUE) :
          LET deploymentExists == findPreviousDeployment(ok) IN
          IF OrphansFound(loc.serviceExists, deploymentExists)
          THEN /\ loc' = [loc EXCEPT !.deploymentExists = deploymentExists,
                                      !.listFailed = @ \/ ~ok]
               /\ cl' = EnterCleanup("orphan", "cleanupOrphans", ctxDone)
               /\ pc' = "co_select"
               /\ obs' = obs
          ELSE /\ loc' = [loc EXCEPT !.deploymentExists = deploymentExists,
                                      !.listFailed = @ \/ ~ok, !.err = NoErr]
               /\ cl' = cl
               /\ pc' = "r_orphans"
               /\ obs' = [obs EXCEPT !.orphans = [how |-> "clean", err |-> NoErr]]
    /\ UNCHANGED <<cluster, others>>

\* select: cleanupDone delivers the result of the concurrent cleanup()
CleanupOrphansDone ==
    /\ ~proc.exited
    /\ pc = "co_select"
    /\ cl["orphan"].pc = "done"
    /\ loc' = [loc EXCEPT !.err = cl["orphan"].res]
    /\ cl' = [cl EXCEPT !["orphan"].pc = "idle"]
    /\ obs' = [obs EXCEPT !.orphans = [how |-> "cleanup", err |-> cl["orphan"].res]]
    /\ pc' = "r_orphans"
    /\ UNCHANGED <<cluster, others>>

\* select: ctx.Done()
CleanupOrphansCtxDone ==
    /\ ~proc.exited
    /\ pc = "co_select"
    /\ ctxDone
    /\ loc' = [loc EXCEPT !.err = PreCheckTimeout]
    /\ obs' = [obs EXCEPT !.orphans = [how |-> "ctx", err |-> PreCheckTimeout]]
    /\ pc' = "r_orphans"
    /\ UNCHANGED <<cluster, cl, others>>

\* select: the two-minute timer armed on entry has fired
CleanupOrphansTimeout ==
    /\ ~proc.exited
    /\ pc = "co_select"
    /\ loc' = [loc EXCEPT !.err = PreCheckTimeout]
    /\ obs' = [obs EXCEPT !.orphans = [how |-> "timer", err |-> PreCheckTimeout]]
    /\ pc' = "r_orphans"
    /\ UNCHANGED <<cluster, cl, others>>

cleanupOrphans ==
    \/ CleanupOrphansFindService
    \/ CleanupOrphansFindDeployment
    \/ CleanupOrphansDone
    \/ CleanupOrphansCtxDone
    \/ CleanupOrphansTimeout

(***************************************************************************)
(* createDeploymentConfig and createContainerConfig: the manifest built    *)
(* for an image, from the configured replica count and container port.     *)
(***************************************************************************)
deploymentMaxSurgeDefault == 2
deploymentMaxUnavailableDefault == 2
deploymentMinReadySeconds == 5
deploymentImagePullPolicy == "IfNotPresent"
MaxInt32 == 2 ^ (WordBits - 1) - 1
MinInt32 == 0 - 2 ^ (WordBits - 1)

\* What int32(x) of a float64 holding a whole number gives.  In range it is
\* the number; out of range the result depends on the build: the low bits of
\* the number, the smallest int32 or the largest.
FloatConversions == {"low bits", "smallest", "largest"}
Int32OfFloat(x, build) ==
    IF MinInt32 <= x /\ x <= MaxInt32 THEN x
    ELSE IF build = "low bits" THEN Int32(x)
    ELSE IF build = "smallest" THEN MinInt32
    ELSE MaxInt32

\* strconv.Itoa of a number that is not negative: its decimal digits.
RECURSIVE Itoa(_)
Itoa(n) == IF n < 10 THEN <<n>> ELSE Append(Itoa(n \div 10), n % 10)

\* math.Ceil(float64(replicas) / float64(2))
CeilHalf(replicas) == (replicas + 1) \div 2

\* A faulty variant of RollingUpdateValue that takes the larger of the
\* computed value and the default.
RollingUpdateValueAtLeastDefault(replicas, default) ==
    IF CeilHalf(replicas) < default THEN default ELSE CeilHalf(replicas)

\* maxSurge and maxUnavailable, each with its own default
RollingUpdateValue(replicas, default) ==
    IF CeilHalf(replicas) < 1 THEN default ELSE CeilHalf(replicas)

IntOrString(v, build) == [IntVal |-> Int32OfFloat(v, build), StrVal |-> Itoa(v)]

Probe == [nil |-> FALSE]

\* A faulty variant of createContainerConfig that runs the default image
\* whatever image it is given.
createContainerConfigDefaultImage(c, imageURL) ==
    [Name |-> "deployment-container",
     Image |-> defaultCheckImageURL,
     ImagePullPolicy |-> deploymentImagePullPolicy,
     Ports |-> << [ContainerPort |-> c.CheckContainerPort] >>,
     LivenessProbe |-> Probe,
     ReadinessProbe |-> Probe]

createContainerConfig(c, imageURL) ==
    [Name |-> "deployment-container",
     Image |-> imageURL,
     ImagePullPolicy |-> deploymentImagePullPolicy,
     Ports |-> << [ContainerPort |-> c.CheckContainerPort] >>,
     LivenessProbe |-> Probe,
     ReadinessProbe |-> Probe]

\* deploymentLabelValueBase + r.now.Unix(): the value of the
\* deployment-timestamp label of the pods run r creates, and of the label
\* selector with which run r lists pods.
TimestampLabel(now) == <<"unix-", now>>

\* The labels of the pod template: the run's timestamp and the source marker.
DeploymentLabels(now) ==
    ("deployment-timestamp" :> TimestampLabel(now)) @@ ("source" :> <<"kuberhealthy">>)

NoLabels == [key \in {} |-> << >>]

\* &appsv1.Deployment{}
EmptyDeployment ==
    [Name |-> "", Namespace |-> "",
     Containers |-> << >>, hasStrategy |-> FALSE,
     MaxUnavailable |-> [IntVal |-> 0, StrVal |-> << >>],
     MaxSurge |-> [IntVal |-> 0, StrVal |-> << >>],
     Replicas |-> 0, MinReadySeconds |-> 0,
     Selector |-> [nil |-> TRUE, MatchLabels |-> NoLabels],
     TemplateLabels |-> NoLabels]

createDeploymentConfig(c, now, image, build) ==
    IF image = "" THEN EmptyDeployment
    ELSE [Name |-> c.CheckDeploymentName,
          Namespace |-> c.CheckNamespace,
          Containers |-> << createContainerConfig(c, image) >>,
          hasStrategy |-> TRUE,
          MaxUnavailable |-> IntOrString(RollingUpdateValue(c.CheckDeploymentReplicas,
                                                            deploymentMaxUnavailableDefault), build),
          MaxSurge |-> IntOrString(RollingUpdateValue(c.CheckDeploymentReplicas,
                                                      deploymentMaxSurgeDefault), build),
          Replicas |-> Int32(c.CheckDeploymentReplicas),
          MinReadySeconds |-> deploymentMinReadySeconds,
          Selector |-> [nil |-> FALSE, MatchLabels |-> DeploymentLabels(now)],
          TemplateLabels |-> DeploymentLabels(now)]

\* A faulty variant of UpdatedDeployment that submits the manifest built for the
\* roll-to image as it is.
UpdatedDeploymentFresh(current, updatedConfig) ==
    updatedConfig @@ [ResourceVersion |-> ""]

\* The object updateDeploymentAndWait submits: the deployment it fetched, a
\* manifest with the resource version the cluster gave it, with the template,
\* replicas, strategy and min-ready-seconds of the manifest built for the
\* roll-to image.
UpdatedDeployment(current, updatedConfig) ==
    [current EXCEPT !.Containers = updatedConfig.Containers,
                    !.TemplateLabels = updatedConfig.TemplateLabels,
                    !.Replicas = updatedConfig.Replicas,
                    !.hasStrategy = updatedConfig.hasStrategy,
                    !.MaxUnavailable = updatedConfig.MaxUnavailable,
                    !.MaxSurge = updatedConfig.MaxSurge,
                    !.MinReadySeconds = updatedConfig.MinReadySeconds]

\* A faulty variant of createServiceConfig that maps the container port to the
\* load-balancer port.
createServiceConfigPortsSwapped(c, labels) ==
    [Name |-> c.CheckServiceName,
     Namespace |-> c.CheckNamespace,
     Type |-> "ClusterIP",
     Ports |-> << [Port |-> c.CheckContainerPort,
                   TargetPort |-> [IntVal |-> c.CheckLoadBalancerPort,
                                   StrVal |-> Itoa(c.CheckLoadBalancerPort)],
                   Protocol |-> "TCP"] >>,
     Selector |-> labels]

createServiceConfig(c, labels) ==
    [Name |-> c.CheckServiceName,
     Namespace |-> c.CheckNamespace,
     Type |-> "ClusterIP",
     Ports |-> << [Port |-> c.CheckLoadBalancerPort,
                   TargetPort |-> [IntVal |-> c.CheckContainerPort,
                                   StrVal |-> Itoa(c.CheckContainerPort)],
                   Protocol |-> "TCP"] >>,
     Selector |-> labels]

\* What the API server requires of a deployment manifest before it stores it.
ManifestAccepted(d) == d.Name # "" /\ Len(d.Containers) > 0

(***************************************************************************)
(* decorateDeploymentError: "<stage> failed: <err>; pod status: <summary>" *)
(***************************************************************************)
\* A faulty variant of decorateDeploymentError that returns the error as it is.
decorateDeploymentErrorBare(stage, err) == err

\* "<stage> failed: <err>; pod status: <summary>"
decorateDeploymentError(stage, err) == {stage \o " failed", "pod status"} \cup err

errDeploymentCreatePod == {"pod in the process of creating deployment"}
errDeploymentUpdatePod == {"pod in the process of updating deployment"}

(***************************************************************************)
(* createDeploymentAndWait                                                 *)
(***************************************************************************)
CreateExpired == {"context expired while waiting for deployment to create"}

\* Deployments.Create is called with the manifest createDeploymentConfig
\* built, whatever it holds; the server stores it only under a free name and
\* only when it names the deployment and has a container.
CreateDeploymentCreate ==
    /\ ~proc.exited
    /\ pc = "cd_create"
    /\ \E ok \in ApiOutcomes(/\ obj["deployment"] = "absent"
                              /\ \A now \in 1..2, build \in FloatConversions :
                                    ManifestAccepted(createDeploymentConfig(
                                        cfg, now, cfg.CheckImageURL, build))) :
          IF ok
          THEN /\ obj' = [obj EXCEPT !["deployment"] = "present"]
               /\ depGen' = 1
               /\ pc' = "cd_watch"
               /\ loc' = loc
               /\ obs' = [obs EXCEPT !.calls = @ \cup {"create deployment"}]
          ELSE /\ UNCHANGED <<obj, depGen>>
               /\ pc' = "r_createDeployment"
               /\ loc' = [loc EXCEPT !.err = {"failed to create deployment"}]
               /\ obs' = Failed([obs EXCEPT !.calls = @ \cup {"create deployment"}],
                                {"failed to create deployment"})
    /\ UNCHANGED <<svcIP, cl, others>>

CreateDeploymentWatch ==
    /\ ~proc.exited
    /\ pc = "cd_watch"
    /\ \E ok \in ApiOutcomes(TRUE) :
          IF ok
          THEN /\ pc' = "cd_wait"
               /\ UNCHANGED <<loc, obs>>
          ELSE /\ pc' = "r_createDeployment"
               /\ loc' = [loc EXCEPT !.err = {"failed to watch deployment"}]
               /\ obs' = Failed(obs, {"failed to watch deployment"})
    /\ UNCHANGED <<cluster, cl, others>>

\* select: a watch event whose deployment satisfies deploymentAvailable;
\* that deployment is returned (any other event leaves the loop where it is)
CreateDeploymentEvent ==
    /\ ~proc.exited
    /\ pc = "cd_wait"
    /\ obj["deployment"] # "absent"
    /\ \E d \in DeploymentEvents(depGen) :
          /\ deploymentAvailable(d, cfg.CheckDeploymentReplicas)
          /\ loc' = [loc EXCEPT !.err = NoErr, !.deployment = d]
    /\ pc' = "r_createDeployment"
    /\ obs' = [obs EXCEPT !.available = TRUE]
    /\ UNCHANGED <<cluster, cl, others>>

\* select: the pod-error monitor delivered an error
CreateDeploymentPodError ==
    /\ ~proc.exited
    /\ pc = "cd_wait"
    /\ LET err == decorateDeploymentError("deployment create", errDeploymentCreatePod) IN
          /\ loc' = [loc EXCEPT !.err = err]
          /\ obs' = Failed(obs, errDeploymentCreatePod)
    /\ pc' = "r_createDeployment"
    /\ UNCHANGED <<cluster, cl, others>>

\* select: ctx.Done(); cleanup(ctx) is called
CreateDeploymentCtxDone ==
    /\ ~proc.exited
    /\ pc = "cd_wait"
    /\ ctxDone
    /\ CallCleanup("createDeploymentAndWait", Failed(obs, CreateExpired))
    /\ pc' = "cd_cleanup"
    /\ UNCHANGED <<cluster, loc, others>>

CreateDeploymentAfterCleanup ==
    /\ ~proc.exited
    /\ pc = "cd_cleanup"
    /\ CleanupReturned
    /\ LET cleanupErr == cl["main"].res IN
          loc' = [loc EXCEPT !.err =
                     IF cleanupErr # NoErr
                     THEN {"failed to clean up after deployment create"} \cup cleanupErr
                     ELSE decorateDeploymentError("deployment create", CreateExpired)]
    /\ TakeCleanup(obs)
    /\ pc' = "r_createDeployment"
    /\ UNCHANGED <<cluster, others>>

createDeploymentAndWait ==
    \/ CreateDeploymentCreate
    \/ CreateDeploymentWatch
    \/ CreateDeploymentEvent
    \/ CreateDeploymentPodError
    \/ CreateDeploymentCtxDone
    \/ CreateDeploymentAfterCleanup

(***************************************************************************)
(* createServiceAndWait                                                    *)
(***************************************************************************)
ServiceExpired == {"context expired while waiting for service to create"}

CreateServiceCreate ==
    /\ ~proc.exited
    /\ pc = "cs_create"
    /\ \E ok \in ApiOutcomes(obj["service"] = "absent") :
          IF ok
          THEN /\ obj' = [obj EXCEPT !["service"] = "present"]
               /\ svcIP' = ""
               /\ pc' = "cs_watch"
               /\ loc' = loc
               /\ obs' = [obs EXCEPT !.calls = @ \cup {"create service"}]
          ELSE /\ UNCHANGED <<obj, svcIP>>
               /\ pc' = "r_createService"
               /\ loc' = [loc EXCEPT !.err = {"failed to create service"}]
               /\ obs' = Failed([obs EXCEPT !.calls = @ \cup {"create service"}],
                                {"failed to create service"})
    /\ UNCHANGED <<depGen, cl, others>>

CreateServiceWatch ==
    /\ ~proc.exited
    /\ pc = "cs_watch"
    /\ \E ok \in ApiOutcomes(TRUE) :
          IF ok
          THEN /\ pc' = "cs_wait"
               /\ UNCHANGED <<loc, obs>>
          ELSE /\ pc' = "r_createService"
               /\ loc' = [loc EXCEPT !.err = {"failed to watch service"}]
               /\ obs' = Failed(obs, {"failed to watch service"})
    /\ UNCHANGED <<cluster, cl, others>>

\* select: a watch event whose service satisfies serviceAvailable; that
\* service is returned
CreateServiceEvent ==
    /\ ~proc.exited
    /\ pc = "cs_wait"
    /\ obj["service"] # "absent"
    /\ serviceAvailable(svcIP)
    /\ pc' = "r_createService"
    /\ loc' = [loc EXCEPT !.err = NoErr, !.service = [nil |-> FALSE, ClusterIP |-> svcIP]]
    /\ obs' = [obs EXCEPT !.serviceReady = TRUE]
    /\ UNCHANGED <<cluster, cl, others>>

CreateServiceCtxDone ==
    /\ ~proc.exited
    /\ pc = "cs_wait"
    /\ ctxDone
    /\ CallCleanup("createServiceAndWait", Failed(obs, ServiceExpired))
    /\ pc' = "cs_cleanup"
    /\ UNCHANGED <<cluster, loc, others>>

CreateServiceAfterCleanup ==
    /\ ~proc.exited
    /\ pc = "cs_cleanup"
    /\ CleanupReturned
    /\ LET cleanupErr == cl["main"].res IN
          loc' = [loc EXCEPT !.err =
                     IF cleanupErr # NoErr
                     THEN {"failed to clean up after service create"} \cup cleanupErr
                     ELSE ServiceExpired]
    /\ TakeCleanup(obs)
    /\ pc' = "r_createService"
    /\ UNCHANGED <<cluster, others>>

createServiceAndWait ==
    \/ CreateServiceCreate
    \/ CreateServiceWatch
    \/ CreateServiceEvent
    \/ CreateServiceCtxDone
    \/ CreateServiceAfterCleanup

(***************************************************************************)
(* getServiceClusterIP: Get the service by its configured name and return  *)
(* the cluster IP it holds now.  It returns to run() (the first probe) or  *)
(* to rollDeploymentAndVerify (the second).                                *)
(***************************************************************************)
\* (ip, err) from the answer of the Get call
ClusterIPResult(ok, clusterIP) ==
    IF ~ok THEN [ip |-> "", err |-> {"failed to fetch service for cluster IP"}]
    ELSE IF clusterIP # "" THEN [ip |-> clusterIP, err |-> NoErr]
    ELSE [ip |-> "", err |-> {"service cluster IP address is empty"}]

\* A faulty variant of ServiceClusterIP that returns the cluster IP of the
\* service it is given when that one has an address.
ServiceClusterIPTrusted(service, ok, clusterIP) ==
    IF service.nil THEN [ip |-> "", err |-> {"service reference was nil"}]
    ELSE IF service.ClusterIP # "" THEN [ip |-> service.ClusterIP, err |-> NoErr]
    ELSE ClusterIPResult(ok, clusterIP)

\* getServiceClusterIP(ctx, service): (ip, err), where `ok` and `clusterIP`
\* are the answer of the Get call by the configured name.
ServiceClusterIP(service, ok, clusterIP) ==
    IF service.nil THEN [ip |-> "", err |-> {"service reference was nil"}]
    ELSE ClusterIPResult(ok, clusterIP)

getServiceClusterIP ==
    /\ ~proc.exited
    /\ pc = "ip_get"
    /\ \E ok \in ApiOutcomes(obj["service"] # "absent") :
          LET r == ClusterIPResult(ok, svcIP) IN
          /\ loc' = [loc EXCEPT !.serviceIP = r.ip, !.err = r.err]
          /\ obs' = IF r.err = NoErr THEN [obs EXCEPT !.fetchedFor = loc.probe]
                    ELSE Failed(obs, r.err)
    /\ pc' = IF loc.probe = 1 THEN "r_serviceIP" ELSE "rv_serviceIP"
    /\ UNCHANGED <<cluster, cl, others>>

(***************************************************************************)
(* requestServiceEndpoint: GET until a 200, with a sleep of 5 x attempt    *)
(* seconds after every other answer.  loc.elapsed is the time since the    *)
(* window was fixed on entry.                                              *)
(***************************************************************************)
RequestCtxExpired == {"context expired while waiting for 200"}
RequestTimedOut == {"backoff loop timed out"}
RequestMaxRetries == {"could not successfully make an HTTP request after attempts"}

\* What leaving the function does to its frame.
RequestFrameDropped(l) ==
    [l EXCEPT !.attempt = 0, !.elapsed = 0, !.gets = 0, !.slept = 0, !.response = "none"]

RequestReturnPc == IF loc.probe = 1 THEN "r_request" ELSE "rv_request"

RequestEnter ==
    /\ ~proc.exited
    /\ pc = "rq_enter"
    /\ IF loc.serviceIP = ""
       THEN /\ loc' = [loc EXCEPT !.err = {"given blank service address for HTTP call"}]
            /\ obs' = Failed(obs, {"given blank service address for HTTP call"})
            /\ pc' = RequestReturnPc
       ELSE /\ loc' = [loc EXCEPT !.attempt = 1, !.elapsed = 0]
            /\ obs' = obs
            /\ pc' = "rq_loop"
    /\ UNCHANGED <<cluster, cl, others>>

\* A faulty variant of RequestExit whose window exit returns without calling
\* cleanup.
RequestExitWindowNoCleanup ==
    /\ ~proc.exited
    /\ pc = "rq_loop"
    /\ \/ ctxDone
       \/ loc.elapsed > requestBackoffTimeout
       \/ loc.attempt > requestBackoffMaxRetries
    /\ IF ctxDone
       THEN /\ CallCleanup("requestServiceEndpoint", Failed(obs, RequestCtxExpired))
            /\ loc' = [RequestFrameDropped(loc) EXCEPT !.err = RequestCtxExpired]
            /\ pc' = "rq_cleanup"
       ELSE IF loc.elapsed > requestBackoffTimeout
       THEN /\ loc' = [RequestFrameDropped(loc) EXCEPT !.err = RequestTimedOut]
            /\ obs' = Failed(obs, RequestTimedOut)
            /\ cl' = cl
            /\ pc' = RequestReturnPc
       ELSE /\ loc' = [RequestFrameDropped(loc) EXCEPT !.err = RequestMaxRetries]
            /\ obs' = Failed(obs, RequestMaxRetries)
            /\ cl' = cl
            /\ pc' = RequestReturnPc
    /\ UNCHANGED <<cluster, others>>

\* The three exits at the top of the loop, in the order the code tests them.
RequestExit ==
    /\ ~proc.exited
    /\ pc = "rq_loop"
    /\ \/ ctxDone
       \/ loc.elapsed > requestBackoffTimeout
       \/ loc.attempt > requestBackoffMaxRetries
    /\ IF ctxDone
       THEN /\ CallCleanup("requestServiceEndpoint", Failed(obs, RequestCtxExpired))
            /\ loc' = [RequestFrameDropped(loc) EXCEPT !.err = RequestCtxExpired]
            /\ pc' = "rq_cleanup"
       ELSE IF loc.elapsed > requestBackoffTimeout
       THEN /\ CallCleanup("requestServiceEndpoint", Failed(obs, RequestTimedOut))
            /\ loc' = [RequestFrameDropped(loc) EXCEPT !.err = RequestTimedOut]
            /\ pc' = "rq_cleanup"
       ELSE /\ loc' = [RequestFrameDropped(loc) EXCEPT !.err = RequestMaxRetries]
            /\ obs' = Failed(obs, RequestMaxRetries)
            /\ cl' = cl
            /\ pc' = RequestReturnPc
    /\ UNCHANGED <<cluster, others>>

\* A faulty variant of RequestAttempt that goes to the next attempt without
\* the sleep.
RequestAttemptNoSleep ==
    /\ ~proc.exited
    /\ pc = "rq_loop"
    /\ ~ctxDone
    /\ ~(loc.elapsed > requestBackoffTimeout)
    /\ ~(loc.attempt > requestBackoffMaxRetries)
    /\ \E response \in Responses, took \in GetDurations :
          IF response = "200"
          THEN /\ loc' = [loc EXCEPT !.err = NoErr, !.gets = @ + 1, !.response = response]
               /\ obs' = [obs EXCEPT !.probed = TRUE, !.probesOK = @ + 1,
                                     !.probedWith[loc.probe] = obs.fetchedFor]
               /\ pc' = "rq_return"
          ELSE /\ loc' = [loc EXCEPT !.attempt = @ + 1, !.gets = @ + 1,
                                     !.response = response, !.slept = 0,
                                     !.elapsed = Min(@ + took, requestBackoffTimeout + 1)]
               /\ obs' = [obs EXCEPT !.probed = TRUE]
               /\ pc' = "rq_loop"
    /\ UNCHANGED <<cluster, cl, others>>

\* A faulty variant of RequestAttempt that sleeps 5 seconds after every attempt.
RequestAttemptFlatSleep ==
    /\ ~proc.exited
    /\ pc = "rq_loop"
    /\ ~ctxDone
    /\ ~(loc.elapsed > requestBackoffTimeout)
    /\ ~(loc.attempt > requestBackoffMaxRetries)
    /\ \E response \in Responses, took \in GetDurations :
          IF response = "200"
          THEN /\ loc' = [loc EXCEPT !.err = NoErr, !.gets = @ + 1, !.response = response]
               /\ obs' = [obs EXCEPT !.probed = TRUE, !.probesOK = @ + 1,
                                     !.probedWith[loc.probe] = obs.fetchedFor]
               /\ pc' = "rq_return"
          ELSE /\ loc' = [loc EXCEPT !.attempt = @ + 1, !.gets = @ + 1,
                                     !.response = response, !.slept = 5,
                                     !.elapsed = Min(@ + took + 5,
                                                     requestBackoffTimeout + 1)]
               /\ obs' = [obs EXCEPT !.probed = TRUE]
               /\ pc' = "rq_loop"
    /\ UNCHANGED <<cluster, cl, others>>

\* One attempt: the GET, and unless it answered 200 the sleep.  loc.gets
\* counts the GETs of this call, loc.response is the answer of the last one
\* and loc.slept the length of the last sleep.
RequestAttempt ==
    /\ ~proc.exited
    /\ pc = "rq_loop"
    /\ ~ctxDone
    /\ ~(loc.elapsed > requestBackoffTimeout)
    /\ ~(loc.attempt > requestBackoffMaxRetries)
    /\ \E response \in Responses, took \in GetDurations :
          IF response = "200"
          THEN /\ loc' = [loc EXCEPT !.err = NoErr, !.gets = @ + 1, !.response = response]
               /\ obs' = [obs EXCEPT !.probed = TRUE, !.probesOK = @ + 1,
                                     !.probedWith[loc.probe] = obs.fetchedFor]
               /\ pc' = "rq_return"
          ELSE /\ loc' = [loc EXCEPT !.attempt = @ + 1, !.gets = @ + 1,
                                     !.response = response, !.slept = 5 * loc.attempt,
                                     !.elapsed = Min(@ + took + 5 * loc.attempt,
                                                     requestBackoffTimeout + 1)]
               /\ obs' = [obs EXCEPT !.probed = TRUE]
               /\ pc' = "rq_loop"
    /\ UNCHANGED <<cluster, cl, others>>

\* return nil after the 200
RequestReturn ==
    /\ ~proc.exited
    /\ pc = "rq_return"
    /\ loc' = RequestFrameDropped(loc)
    /\ pc' = RequestReturnPc
    /\ UNCHANGED <<cluster, cl, obs, others>>

RequestAfterCleanup ==
    /\ ~proc.exited
    /\ pc = "rq_cleanup"
    /\ CleanupReturned
    /\ LET cleanupErr == cl["main"].res IN
          loc' = [loc EXCEPT !.err =
                     IF cleanupErr # NoErr
                     THEN @ \cup {"and cleanup failed"} \cup cleanupErr
                     ELSE @]
    /\ TakeCleanup(obs)
    /\ pc' = RequestReturnPc
    /\ UNCHANGED <<cluster, others>>

requestServiceEndpoint ==
    \/ RequestEnter
    \/ RequestExit
    \/ RequestAttempt
    \/ RequestReturn
    \/ RequestAfterCleanup

(***************************************************************************)
(* updateDeploymentAndWait                                                 *)
(***************************************************************************)
UpdateExpired == {"context expired while waiting for deployment to update"}

UpdateNoContainers == {"updated deployment config did not include containers"}

\* A faulty variant of UpdatedConfigHasContainers that accepts every manifest.
UpdatedConfigAccepted(updatedConfig) == TRUE

\* len(updatedConfig.Spec.Template.Spec.Containers) == 0 is an error
UpdatedConfigHasContainers(updatedConfig) == Len(updatedConfig.Containers) # 0

\* The Get of the current deployment, and the manifest built for the roll-to
\* image: without containers it is not submitted.
UpdateDeploymentGet ==
    /\ ~proc.exited
    /\ pc = "ud_get"
    /\ \E ok \in ApiOutcomes(obj["deployment"] # "absent") :
          IF ~ok
          THEN /\ pc' = "rv_updated"
               /\ loc' = [loc EXCEPT !.err = {"failed to fetch deployment for update"}]
               /\ obs' = Failed(obs, {"failed to fetch deployment for update"})
          ELSE IF \A now \in 1..2, build \in FloatConversions :
                     UpdatedConfigHasContainers(createDeploymentConfig(
                         cfg, now, cfg.CheckImageURLRollTo, build))
          THEN /\ pc' = "ud_update"
               /\ UNCHANGED <<loc, obs>>
          ELSE /\ pc' = "rv_updated"
               /\ loc' = [loc EXCEPT !.err = UpdateNoContainers]
               /\ obs' = Failed(obs, UpdateNoContainers)
    /\ UNCHANGED <<cluster, cl, others>>

UpdateDeploymentUpdate ==
    /\ ~proc.exited
    /\ pc = "ud_update"
    /\ \E ok \in ApiOutcomes(obj["deployment"] # "absent") :
          IF ok
          THEN /\ depGen' = 2
               /\ pc' = "ud_watch"
               /\ loc' = loc
               /\ obs' = [obs EXCEPT !.calls = @ \cup {"update deployment"}]
          ELSE /\ depGen' = depGen
               /\ pc' = "rv_updated"
               /\ loc' = [loc EXCEPT !.err = {"failed to update deployment"}]
               /\ obs' = Failed([obs EXCEPT !.calls = @ \cup {"update deployment"}],
                                {"failed to update deployment"})
    /\ UNCHANGED <<obj, svcIP, cl, others>>

UpdateDeploymentWatch ==
    /\ ~proc.exited
    /\ pc = "ud_watch"
    /\ \E ok \in ApiOutcomes(TRUE) :
          IF ok
          THEN /\ pc' = "ud_wait"
               /\ UNCHANGED <<loc, obs>>
          ELSE /\ pc' = "rv_updated"
               /\ loc' = [loc EXCEPT !.err = {"failed to watch deployment update"}]
               /\ obs' = Failed(obs, {"failed to watch deployment update"})
    /\ UNCHANGED <<cluster, cl, others>>

\* select: a watch event whose deployment satisfies rolledPodsAreReady
UpdateDeploymentEvent ==
    /\ ~proc.exited
    /\ pc = "ud_wait"
    /\ obj["deployment"] # "absent"
    /\ \E d \in DeploymentEvents(depGen) :
          /\ rolledPodsAreReady(d, cfg.CheckDeploymentReplicas)
          /\ loc' = [loc EXCEPT !.err = NoErr, !.deployment = d]
    /\ pc' = "rv_updated"
    /\ obs' = [obs EXCEPT !.rolled = TRUE]
    /\ UNCHANGED <<cluster, cl, others>>

UpdateDeploymentPodError ==
    /\ ~proc.exited
    /\ pc = "ud_wait"
    /\ LET err == decorateDeploymentError("deployment update", errDeploymentUpdatePod) IN
          /\ loc' = [loc EXCEPT !.err = err]
          /\ obs' = Failed(obs, errDeploymentUpdatePod)
    /\ pc' = "rv_updated"
    /\ UNCHANGED <<cluster, cl, others>>

UpdateDeploymentCtxDone ==
    /\ ~proc.exited
    /\ pc = "ud_wait"
    /\ ctxDone
    /\ CallCleanup("updateDeploymentAndWait", Failed(obs, UpdateExpired))
    /\ pc' = "ud_cleanup"
    /\ UNCHANGED <<cluster, loc, others>>

UpdateDeploymentAfterCleanup ==
    /\ ~proc.exited
    /\ pc = "ud_cleanup"
    /\ CleanupReturned
    /\ LET cleanupErr == cl["main"].res IN
          loc' = [loc EXCEPT !.err =
                     IF cleanupErr # NoErr
                     THEN {"failed to clean up after deployment update"} \cup cleanupErr
                     ELSE decorateDeploymentError("deployment update", UpdateExpired)]
    /\ TakeCleanup(obs)
    /\ pc' = "rv_updated"
    /\ UNCHANGED <<cluster, others>>

updateDeploymentAndWait ==
    \/ UpdateDeploymentGet
    \/ UpdateDeploymentUpdate
    \/ UpdateDeploymentWatch
    \/ UpdateDeploymentEvent
    \/ UpdateDeploymentPodError
    \/ UpdateDeploymentCtxDone
    \/ UpdateDeploymentAfterCleanup

(***************************************************************************)
(* rollDeploymentAndVerify                                                 *)
(***************************************************************************)
\* updateDeploymentAndWait returned

\* A faulty variant of RollAfterUpdate that probes the address of the first
\* lookup again instead of fetching the service after the rollout.
RollAfterUpdateStaleIP ==
    /\ ~proc.exited
    /\ pc = "rv_updated"
    /\ pc' = IF loc.err # NoErr THEN "r_roll" ELSE "rq_enter"
    /\ loc' = [loc EXCEPT !.deployment = NilDeployment]
    /\ UNCHANGED <<cluster, cl, obs, others>>

RollAfterUpdate ==
    /\ ~proc.exited
    /\ pc = "rv_updated"
    /\ pc' = IF loc.err # NoErr THEN "r_roll" ELSE "rv_getService"
    /\ loc' = [loc EXCEPT !.deployment = NilDeployment]
    /\ UNCHANGED <<cluster, cl, obs, others>>

\* Services(namespace).Get after the rollout
RollGetService ==
    /\ ~proc.exited
    /\ pc = "rv_getService"
    /\ \E ok \in ApiOutcomes(obj["service"] # "absent") :
          IF ok
          THEN /\ pc' = "ip_get"
               /\ UNCHANGED <<loc, obs>>
          ELSE /\ pc' = "r_roll"
               /\ loc' = [loc EXCEPT !.err = {"failed to fetch service after rolling update"}]
               /\ obs' = Failed(obs, {"failed to fetch service after rolling update"})
    /\ UNCHANGED <<cluster, cl, others>>

\* getServiceClusterIP returned
RollAfterServiceIP ==
    /\ ~proc.exited
    /\ pc = "rv_serviceIP"
    /\ pc' = IF loc.err # NoErr THEN "r_roll" ELSE "rq_enter"
    /\ UNCHANGED <<cluster, loc, cl, obs, others>>

\* requestServiceEndpoint returned: its result is the function's result
RollAfterRequest ==
    /\ ~proc.exited
    /\ pc = "rv_request"
    /\ pc' = "r_roll"
    /\ UNCHANGED <<cluster, loc, cl, obs, others>>

rollDeploymentAndVerify ==
    \/ RollAfterUpdate
    \/ RollGetService
    \/ RollAfterServiceIP
    \/ RollAfterRequest

(***************************************************************************)
(* run: the sequence of the steps, and what it does with their errors.     *)
(***************************************************************************)
\* run() returns loc.err
Return(o) == /\ pc' = "runReturned"
             /\ obs' = [o EXCEPT !.returned = TRUE]

\* "<what>: <err>", and "; cleanup error: <cleanupErr>" when cleanup failed too
WithCleanupError(what, err, cleanupErr) ==
    {what} \cup err \cup (IF cleanupErr # NoErr THEN {"cleanup error"} \cup cleanupErr ELSE {})


\* A faulty variant of RunAfterReady that goes on to the orphan
\* reconciliation whatever the readiness check returned.
RunAfterReadyUnchecked ==
    /\ ~proc.exited
    /\ pc = "r_ready"
    /\ pc' = "co_findService"
    /\ loc' = [loc EXCEPT !.err = NoErr]
    /\ UNCHANGED <<cluster, cl, obs, others>>

RunAfterReady ==
    /\ ~proc.exited
    /\ pc = "r_ready"
    /\ IF loc.err # NoErr
       THEN Return(Failed(obs, loc.err))
       ELSE pc' = "co_findService" /\ obs' = obs
    /\ UNCHANGED <<cluster, loc, cl, others>>

RunAfterOrphans ==
    /\ ~proc.exited
    /\ pc = "r_orphans"
    /\ IF loc.err # NoErr
       THEN Return(Failed(obs, loc.err))
       ELSE pc' = "cd_create" /\ obs' = obs
    /\ loc' = [loc EXCEPT !.serviceExists = FALSE, !.deploymentExists = FALSE,
                          !.listFailed = FALSE]
    /\ UNCHANGED <<cluster, cl, others>>


\* A faulty variant of RunAfterCreateDeployment that creates the service
\* whatever createDeploymentAndWait returned.
RunAfterCreateDeploymentUnchecked ==
    /\ ~proc.exited
    /\ pc = "r_createDeployment"
    /\ pc' = "cs_create"
    /\ loc' = [loc EXCEPT !.err = NoErr, !.deployment = NilDeployment]
    /\ UNCHANGED <<cluster, cl, obs, others>>

RunAfterCreateDeployment ==
    /\ ~proc.exited
    /\ pc = "r_createDeployment"
    /\ IF loc.err # NoErr
       THEN Return(obs)
       ELSE pc' = "cs_create" /\ obs' = obs
    /\ loc' = [loc EXCEPT !.deployment = NilDeployment]
    /\ UNCHANGED <<cluster, cl, others>>

RunAfterCreateService ==
    /\ ~proc.exited
    /\ pc = "r_createService"
    /\ IF loc.err # NoErr
       THEN /\ CallCleanup("run: service creation failed", obs)
            /\ pc' = "r_createService_cleanup"
            /\ loc' = loc
       ELSE /\ pc' = "ip_get"
            /\ loc' = [loc EXCEPT !.probe = 1, !.service = NilService]
            /\ UNCHANGED <<cl, obs>>
    /\ UNCHANGED <<cluster, others>>

RunServiceCreationFailed ==
    /\ ~proc.exited
    /\ pc = "r_createService_cleanup"
    /\ CleanupReturned
    /\ loc' = [loc EXCEPT !.err = WithCleanupError("service creation failed", @, cl["main"].res)]
    /\ cl' = [cl EXCEPT !["main"].pc = "idle"]
    /\ Return([obs EXCEPT !.cleanupFailed = @ \/ cl["main"].res # NoErr])
    /\ UNCHANGED <<cluster, others>>

RunAfterServiceIP ==
    /\ ~proc.exited
    /\ pc = "r_serviceIP"
    /\ IF loc.err # NoErr
       THEN /\ loc' = [loc EXCEPT !.err = {"service lookup failed"} \cup @]
            /\ Return(obs)
       ELSE /\ pc' = "rq_enter"
            /\ UNCHANGED <<loc, obs>>
    /\ UNCHANGED <<cluster, cl, others>>

\* A faulty variant of RunAfterRequest that drops the check of the probe's
\* error and carries on as if the request had succeeded.
RunAfterRequestUnchecked ==
    /\ ~proc.exited
    /\ pc = "r_request"
    /\ IF cfg.RollingUpdate
       THEN /\ pc' = "ud_get"
            /\ loc' = [loc EXCEPT !.probe = 2, !.err = NoErr]
            /\ UNCHANGED <<cl, obs>>
       ELSE /\ CallCleanup("run: final", obs)
            /\ pc' = "r_cleanup"
            /\ loc' = [loc EXCEPT !.err = NoErr]
    /\ UNCHANGED <<cluster, others>>

RunAfterRequest ==
    /\ ~proc.exited
    /\ pc = "r_request"
    /\ IF loc.err # NoErr
       THEN /\ CallCleanup("run: service request failed", obs)
            /\ pc' = "r_request_cleanup"
            /\ loc' = loc
       ELSE IF cfg.RollingUpdate
       THEN /\ pc' = "ud_get"
            /\ loc' = [loc EXCEPT !.probe = 2]
            /\ UNCHANGED <<cl, obs>>
       ELSE /\ CallCleanup("run: final", obs)
            /\ pc' = "r_cleanup"
            /\ loc' = loc
    /\ UNCHANGED <<cluster, others>>

RunServiceRequestFailed ==
    /\ ~proc.exited
    /\ pc = "r_request_cleanup"
    /\ CleanupReturned
    /\ loc' = [loc EXCEPT !.err = WithCleanupError("service request failed", @, cl["main"].res)]
    /\ cl' = [cl EXCEPT !["main"].pc = "idle"]
    /\ Return([obs EXCEPT !.cleanupFailed = @ \/ cl["main"].res # NoErr])
    /\ UNCHANGED <<cluster, others>>

RunAfterRoll ==
    /\ ~proc.exited
    /\ pc = "r_roll"
    /\ IF loc.err # NoErr
       THEN /\ Return(obs)
            /\ cl' = cl
       ELSE /\ CallCleanup("run: final", obs)
            /\ pc' = "r_cleanup"
    /\ UNCHANGED <<cluster, loc, others>>

RunFinalCleanup ==
    /\ ~proc.exited
    /\ pc = "r_cleanup"
    /\ CleanupReturned
    /\ loc' = [loc EXCEPT !.err = cl["main"].res]
    /\ cl' = [cl EXCEPT !["main"].pc = "idle"]
    /\ Return(obs)
    /\ UNCHANGED <<cluster, others>>

run ==
    \/ RunAfterReady
    \/ RunAfterOrphans
    \/ RunAfterCreateDeployment
    \/ RunAfterCreateService
    \/ RunServiceCreationFailed
    \/ RunAfterServiceIP
    \/ RunAfterRequest
    \/ RunServiceRequestFailed
    \/ RunAfterRoll
    \/ RunFinalCleanup

(***************************************************************************)
(* main, reportFailure and reportSuccess.  Init is the state after         *)
(* parseConfig has succeeded.                                              *)
(***************************************************************************)
\* The process ends: nothing of its goroutines is left.
Exit(by) ==
    /\ proc' = [proc EXCEPT !.exited = TRUE, !.exitBy = by]
    /\ pc' = "exited"
    /\ hpc' = "exited"
    /\ loc' = InitLoc
    /\ cl' = [t \in Threads |-> IdleCleanup]

\* One report call is made; whether or not it is delivered, the process
\* then ends (main returns, or log.Fatalln).
Report(verdict) == [proc EXCEPT !.reports = @ + 1, !.verdict = verdict]

reportFailure == Report("failure")

reportSuccess == Report("success")

\* A faulty variant of MainCreateKubeClient that returns from main on a
\* client error without the reportFailure call.
MainCreateKubeClientSilent ==
    /\ ~proc.exited
    /\ pc = "createKubeClient"
    /\ \E ok \in BOOLEAN :
          IF ok
          THEN /\ pc' = "waitReady"
               /\ hpc' = "waitSignal"
          ELSE /\ pc' = "reported"
               /\ hpc' = hpc
    /\ UNCHANGED <<cfg, cluster, ctxDone, loc, cl, obs, harness, proc>>

\* createKubeClient; on success the context is built and handleInterrupts started
MainCreateKubeClient ==
    /\ ~proc.exited
    /\ pc = "createKubeClient"
    /\ \E ok \in BOOLEAN :
          IF ok
          THEN /\ pc' = "waitReady"
               /\ hpc' = "waitSignal"
               /\ proc' = proc
          ELSE /\ pc' = "reported"
               /\ hpc' = hpc
               /\ proc' = reportFailure
    /\ UNCHANGED <<cfg, cluster, ctxDone, loc, cl, obs, harness>>

\* run() returned to main
MainReport ==
    /\ ~proc.exited
    /\ pc = "runReturned"
    /\ proc' = IF loc.err # NoErr THEN reportFailure ELSE reportSuccess
    /\ pc' = "reported"
    /\ UNCHANGED <<cfg, cluster, ctxDone, loc, hpc, cl, obs, harness>>

MainExit ==
    /\ ~proc.exited
    /\ pc = "reported"
    /\ Exit("main")
    /\ UNCHANGED <<cfg, cluster, ctxDone, obs, harness>>

main ==
    \/ MainCreateKubeClient
    \/ MainReport
    \/ MainExit

(***************************************************************************)
(* handleInterrupts                                                        *)
(***************************************************************************)
\* A faulty variant of HandleFirstInterrupt that goes on to the cleanup
\* without the cancel() call.
HandleFirstInterruptNoCancel ==
    /\ ~proc.exited
    /\ hpc = "waitSignal"
    /\ hpc' = "cancelled"
    /\ UNCHANGED <<cfg, cluster, ctxDone, pc, loc, cl, proc, obs, harness>>

\* The first signal is received: cancel()
HandleFirstInterrupt ==
    /\ ~proc.exited
    /\ hpc = "waitSignal"
    /\ ctxDone' = TRUE
    /\ hpc' = "cancelled"
    /\ UNCHANGED <<cfg, cluster, pc, loc, cl, proc, obs, harness>>

\* go r.runCleanupAsync(ctx, cleanupChan), with the context just cancelled
HandleStartCleanup ==
    /\ ~proc.exited
    /\ hpc = "cancelled"
    /\ cl' = EnterCleanup("intr", "handleInterrupts", ctxDone)
    /\ hpc' = "select"
    /\ UNCHANGED <<cfg, cluster, ctxDone, pc, loc, proc, obs, harness>>

\* select: a second signal is received
HandleSecondInterrupt ==
    /\ ~proc.exited
    /\ hpc = "select"
    /\ Exit("second interrupt")
    /\ UNCHANGED <<cfg, cluster, ctxDone, obs, harness>>

\* select: cleanupChan delivers
HandleCleanupDone ==
    /\ ~proc.exited
    /\ hpc = "select"
    /\ cl["intr"].pc = "done"
    /\ Exit("interrupt cleanup done")
    /\ UNCHANGED <<cfg, cluster, ctxDone, obs, harness>>

\* select: time.After(ShutdownGracePeriod)
HandleGraceTimeout ==
    /\ ~proc.exited
    /\ hpc = "select"
    /\ Exit("grace period")
    /\ UNCHANGED <<cfg, cluster, ctxDone, obs, harness>>

handleInterrupts ==
    \/ HandleFirstInterrupt
    \/ HandleStartCleanup
    \/ HandleSecondInterrupt
    \/ HandleCleanupDone
    \/ HandleGraceTimeout

\* runCleanupAsync: cleanup(ctx), then the result goes into the buffered
\* channel, where cl[t].pc = "done" holds it.
runCleanupAsync(t) == cleanup(t)

(***************************************************************************)
(* The rest of the environment.                                            *)
(***************************************************************************)
\* The cluster gives the stored service its cluster IP.
ClusterAssignIP ==
    /\ ~proc.exited
    /\ obj["service"] = "present"
    /\ svcIP = ""
    /\ \E ip \in IPs : svcIP' = ip
    /\ UNCHANGED <<cfg, obj, depGen, ctxDone, pc, loc, hpc, cl, proc, obs, harness>>

(***************************************************************************)
(* Spec: the process from the end of parseConfig to its exit.  The         *)
(* namespace may hold a deployment and a service left by an earlier run.   *)
(***************************************************************************)
Init ==
    /\ cfg \in {[DefaultConfig EXCEPT !.RollingUpdate = rollingUpdate] : rollingUpdate \in BOOLEAN}
    /\ obj \in [Kinds -> {"absent", "present"}]
    /\ svcIP = IF obj["service"] = "present" THEN "10.0.0.1" ELSE ""
    /\ depGen = IF obj["deployment"] = "present" THEN 1 ELSE 0
    /\ ctxDone = FALSE
    /\ pc = "createKubeClient"
    /\ loc = InitLoc
    /\ hpc = "off"
    /\ cl = [t \in Threads |-> IdleCleanup]
    /\ proc = InitProc
    /\ obs = InitObs
    /\ harness = InitHarness

Next ==
    \/ main
    \/ handleInterrupts
    \/ run
    \/ waitForKuberhealthyReady
    \/ cleanupOrphans
    \/ createDeploymentAndWait
    \/ createServiceAndWait
    \/ getServiceClusterIP
    \/ requestServiceEndpoint
    \/ rollDeploymentAndVerify
    \/ updateDeploymentAndWait
    \/ cleanup("main")
    \/ runCleanupAsync("orphan")
    \/ runCleanupAsync("intr")
    \/ CtxExpire
    \/ ClusterFinalize
    \/ ClusterAssignIP

Spec == Init /\ [][Next]_vars

(***************************************************************************)
(* SpecHandler: the program with the scheduling the handler relies on.     *)
(* Once the first signal is received the handler goroutine keeps running:  *)
(* it starts the cleanup goroutine, and the runtime fires the timer of     *)
(* time.After(ShutdownGracePeriod) unless the process ends before.  No     *)
(* fairness is assumed of signals, of the cluster, or of cleanup.          *)
(***************************************************************************)
SpecHandler ==
    /\ Init
    /\ [][Next]_vars
    /\ WF_vars(HandleStartCleanup)
    /\ WF_vars(HandleGraceTimeout)


(***************************************************************************)
(* SpecRun: the whole program as in Spec, with the HTTP GET of the probe    *)
(* loop as the blocking call it is, and with the fairness the code gives.   *)
(*                                                                          *)
(* requestServiceEndpoint calls http.Get(address): the request of the       *)
(* default client, which has no timeout, and which is not bound to the run  *)
(* context.  Nothing in the program makes the call return, so next to the   *)
(* answered GET of RequestAttempt there is the GET that is never answered.  *)
(*                                                                          *)
(* Fairness:                                                                *)
(*   CtxExpire    the run context is made by context.WithTimeout with the   *)
(*                check's time limit, so it is done after a finite time;    *)
(*   MainSteps    the main goroutine is scheduled: a statement that can run *)
(*                runs, a sleep ends, an API call made with a context       *)
(*                returns, a timer fires, and a select whose ctx.Done()     *)
(*                case stays ready takes it after finitely many rounds (the *)
(*                select picks among its ready cases at random).            *)
(* There is no fairness for what the cluster sends: watch events and the    *)
(* error of the pod monitor may never come, and the cluster may never       *)
(* remove a resource.                                                       *)
(***************************************************************************)
\* http.Get(address) is called and does not return.
RequestGetBlocked ==
    /\ ~proc.exited
    /\ pc = "rq_loop"
    /\ ~ctxDone
    /\ ~(loc.elapsed > requestBackoffTimeout)
    /\ ~(loc.attempt > requestBackoffMaxRetries)
    /\ pc' = "rq_get"
    /\ UNCHANGED <<cluster, loc, cl, obs, others>>

\* The steps of the main goroutine that do not wait for the cluster.
MainSteps ==
    \/ main
    \/ run
    \/ waitForKuberhealthyReady
    \/ cleanupOrphans
    \/ CreateDeploymentCreate
    \/ CreateDeploymentWatch
    \/ CreateDeploymentCtxDone
    \/ CreateDeploymentAfterCleanup
    \/ CreateServiceCreate
    \/ CreateServiceWatch
    \/ CreateServiceCtxDone
    \/ CreateServiceAfterCleanup
    \/ getServiceClusterIP
    \/ RequestEnter
    \/ RequestExit
    \/ RequestAttempt
    \/ RequestReturn
    \/ RequestAfterCleanup
    \/ UpdateDeploymentGet
    \/ UpdateDeploymentUpdate
    \/ UpdateDeploymentWatch
    \/ UpdateDeploymentCtxDone
    \/ UpdateDeploymentAfterCleanup
    \/ rollDeploymentAndVerify
    \/ cleanup("main")

NextRun ==
    \/ Next
    \/ RequestGetBlocked

SpecRun ==
    /\ Init
    /\ [][NextRun]_vars
    /\ WF_vars(MainSteps)
    /\ WF_vars(CtxExpire)

(***************************************************************************)
(* SpecShared: two runs of the check against one namespace, configured     *)
(* with the same deployment and service names, started at different        *)
(* seconds.  Only what decides which object a call reaches is kept of      *)
(* each step: the name the call uses, or the label selector built from     *)
(* r.now.  Every object remembers the run that created it.                 *)
(*   harness.dep, harness.svc : the run whose object is stored under the   *)
(*                              configured name (0: none)                  *)
(*   harness.pods             : the runs whose pods exist                  *)
(*   harness.at[r]            : the step run r is at                       *)
(*   harness.deleted[r], harness.inspected[r] : <<kind, creator>> of the   *)
(*                              objects run r has deleted / inspected      *)
(***************************************************************************)
Runs == {1, 2}

program == <<cfg, obj, svcIP, depGen, ctxDone, pc, loc, hpc, cl, proc, obs>>

\* The state of the program's own variables in a specification that drives
\* one component on its own.
InitComponent ==
    /\ cfg = DefaultConfig
    /\ obj = [k \in Kinds |-> "absent"]
    /\ svcIP = ""
    /\ depGen = 0
    /\ ctxDone = FALSE
    /\ pc = "driver"
    /\ loc = InitLoc
    /\ hpc = "off"
    /\ cl = [t \in Threads |-> IdleCleanup]
    /\ proc = InitProc
    /\ obs = InitObs

InitShared ==
    /\ InitComponent
    /\ \E now \in [Runs -> 1..2] :
          /\ now[1] # now[2]
          /\ harness = [now |-> now, dep |-> 0, svc |-> 0, pods |-> {},
                        at |-> [r \in Runs |-> "findPrevious"],
                        found |-> [r \in Runs |-> {}],
                        deleted |-> [r \in Runs |-> {}],
                        inspected |-> [r \in Runs |-> {}]]

\* findPreviousService and findPreviousDeployment of run r: List of the
\* namespace, then a match on the configured name.
SharedFindPrevious(r) ==
    /\ harness.at[r] = "findPrevious"
    /\ LET found == {k \in Kinds : IF k = "service" THEN harness.svc # 0
                                                   ELSE harness.dep # 0} IN
          harness' = [harness EXCEPT
                         !.found[r] = found,
                         !.at[r] = IF OrphansFound("service" \in found, "deployment" \in found)
                                   THEN "orphanService" ELSE "createDeployment"]
    /\ UNCHANGED program

\* deleteService of run r: Delete of the configured service name.
SharedDeleteService(r) ==
    /\ harness.at[r] \in {"orphanService", "finalService"}
    /\ harness' = [harness EXCEPT
                      !.svc = 0,
                      !.deleted[r] = IF harness.svc = 0 THEN @
                                     ELSE @ \cup {<<"service", harness.svc>>},
                      !.at[r] = IF @ = "orphanService" THEN "orphanDeployment"
                                ELSE "finalDeployment"]
    /\ UNCHANGED program

\* deleteDeployment of run r: Delete of the configured deployment name; the
\* pods of the deleted deployment go with it.
SharedDeleteDeployment(r) ==
    /\ harness.at[r] \in {"orphanDeployment", "finalDeployment"}
    /\ harness' = [harness EXCEPT
                      !.dep = 0,
                      !.pods = @ \ {harness.dep},
                      !.deleted[r] = IF harness.dep = 0 THEN @
                                     ELSE @ \cup {<<"deployment", harness.dep>>},
                      !.at[r] = IF @ = "orphanDeployment" THEN "createDeployment"
                                ELSE "returned"]
    /\ UNCHANGED program

\* Deployments.Create of run r under the configured name; run() returns the
\* error when the name is taken.  The pods carry the label of run r.
SharedCreateDeployment(r) ==
    /\ harness.at[r] = "createDeployment"
    /\ harness' = IF harness.dep = 0
                  THEN [harness EXCEPT !.dep = r, !.pods = @ \cup {r},
                                       !.at[r] = "inspectPods"]
                  ELSE [harness EXCEPT !.at[r] = "returned"]
    /\ UNCHANGED program

\* checkDeploymentPodEvent and deploymentPodSummary of run r: List of the
\* pods selected by the label of run r.
SharedInspectPods(r) ==
    /\ harness.at[r] = "inspectPods"
    /\ LET listed == {o \in harness.pods :
                         TimestampLabel(harness.now[o]) = TimestampLabel(harness.now[r])} IN
          harness' = [harness EXCEPT
                         !.inspected[r] = @ \cup {<<"pod", o>> : o \in listed},
                         !.at[r] = "createService"]
    /\ UNCHANGED program

\* Services.Create of run r under the configured name; run() calls cleanup()
\* when it fails, and at its end when all went well.
SharedCreateService(r) ==
    /\ harness.at[r] = "createService"
    /\ harness' = IF harness.svc = 0
                  THEN [harness EXCEPT !.svc = r, !.at[r] = "finalService"]
                  ELSE [harness EXCEPT !.at[r] = "finalService"]
    /\ UNCHANGED program

NextShared ==
    \/ \E r \in Runs : SharedFindPrevious(r)
    \/ \E r \in Runs : SharedDeleteService(r)
    \/ \E r \in Runs : SharedDeleteDeployment(r)
    \/ \E r \in Runs : SharedCreateDeployment(r)
    \/ \E r \in Runs : SharedInspectPods(r)
    \/ \E r \in Runs : SharedCreateService(r)

SpecShared == InitShared /\ [][NextShared]_vars

(***************************************************************************)
(* SpecStatus: deploymentAvailable and rolledPodsAreReady applied to a     *)
(* deployment pointer and a configured replica count.                      *)
(*   harness.d        : the deployment passed (nil, or a status)           *)
(*   harness.replicas : the replicas argument, a Go int                    *)
(*   harness.applied  : the predicate applied last                         *)
(*   harness.result   : what it returned                                   *)
(***************************************************************************)
\* CHECK_DEPLOYMENT_REPLICAS as parseConfig accepts it: any int that is at
\* least 1, those that fit int32 and one that does not.
ReplicaInputs == (1..MaxReplicas) \cup {2 ^ WordBits + defaultCheckDeploymentReplicas}

InitStatus ==
    /\ InitComponent
    /\ \E d \in DeploymentEvents(2) \cup {NilDeployment}, replicas \in ReplicaInputs :
          harness = [d |-> d, replicas |-> replicas, applied |-> "none", result |-> FALSE]

ApplyDeploymentAvailable ==
    /\ harness.applied # "deploymentAvailable"
    /\ harness' = [harness EXCEPT !.applied = "deploymentAvailable",
                                  !.result = deploymentAvailable(harness.d, harness.replicas)]
    /\ UNCHANGED program

ApplyRolledPodsAreReady ==
    /\ harness.applied # "rolledPodsAreReady"
    /\ harness' = [harness EXCEPT !.applied = "rolledPodsAreReady",
                                  !.result = rolledPodsAreReady(harness.d, harness.replicas)]
    /\ UNCHANGED program

NextStatus == ApplyDeploymentAvailable \/ ApplyRolledPodsAreReady

SpecStatus == InitStatus /\ [][NextStatus]_vars

(***************************************************************************)
(* SpecProbeExit: requestServiceEndpoint from the top of its loop, entered *)
(* with each of its three limits reached or not: the context done or       *)
(* live, the window elapsed or not, the attempt counter anywhere up to one *)
(* past requestBackoffMaxRetries.                                          *)
(***************************************************************************)
InitProbeExit ==
    /\ cfg = DefaultConfig
    /\ obj = [k \in Kinds |-> "present"]
    /\ svcIP \in IPs
    /\ depGen = 1
    /\ ctxDone \in BOOLEAN
    /\ pc = "rq_loop"
    /\ \E attempt \in 1..(requestBackoffMaxRetries + 1),
          elapsed \in {0, requestBackoffTimeout, requestBackoffTimeout + 1} :
          loc = [InitLoc EXCEPT !.serviceExists = TRUE, !.deploymentExists = TRUE,
                                !.serviceIP = svcIP, !.probe = 1,
                                !.attempt = attempt, !.gets = attempt - 1,
                                !.slept = 5 * (attempt - 1),
                                !.response = IF attempt = 1 THEN "none" ELSE "502",
                                !.elapsed = elapsed]
    /\ hpc = "off"
    /\ cl = [t \in Threads |-> IdleCleanup]
    /\ proc = InitProc
    /\ obs = InitObs
    /\ harness = InitHarness

NextProbeExit ==
    \/ RequestExit
    \/ RequestAttempt
    \/ RequestReturn
    \/ RequestAfterCleanup
    \/ cleanup("main")
    \/ CtxExpire
    \/ ClusterFinalize

SpecProbeExit == InitProbeExit /\ [][NextProbeExit]_vars

(***************************************************************************)
(* SpecConfig: createDeploymentConfig applied to an image string and to a  *)
(* roll-to image, for a configuration with any accepted replica count,     *)
(* ports and namespace.                                                    *)
(*   harness.now        : the run's timestamp                              *)
(*   harness.image      : the image argument                               *)
(*   harness.build      : what the build's float conversion does           *)
(*   harness.deployment : the manifest returned, once harness.built        *)
(*   harness.rollTo     : the manifest returned for the roll-to image,     *)
(*                        once harness.builtRollTo                         *)
(*   harness.service    : the service manifest built for harness.labels,   *)
(*                        once harness.builtService; harness.inRun tells   *)
(*                        that the labels were passed as run() does        *)
(***************************************************************************)
Images == {"", defaultCheckImageURL, defaultCheckImageURLB}
Ports == {defaultCheckContainerPort, defaultCheckLoadBalancerPort}

InitConfig ==
    /\ \E replicas \in ReplicaInputs, port \in Ports, loadBalancerPort \in Ports,
          namespace \in {"kuberhealthy", "checks"}, rollTo \in Images \ {""} :
          cfg = [DefaultConfig EXCEPT !.CheckDeploymentReplicas = replicas,
                                      !.CheckContainerPort = port,
                                      !.CheckLoadBalancerPort = loadBalancerPort,
                                      !.CheckNamespace = namespace,
                                      !.CheckImageURLRollTo = rollTo]
    /\ obj = [k \in Kinds |-> "absent"]
    /\ svcIP = ""
    /\ depGen = 0
    /\ ctxDone = FALSE
    /\ pc = "driver"
    /\ loc = InitLoc
    /\ hpc = "off"
    /\ cl = [t \in Threads |-> IdleCleanup]
    /\ proc = InitProc
    /\ obs = InitObs
    /\ \E image \in Images, build \in FloatConversions, now \in 1..2 :
          harness = [now |-> now, image |-> image, build |-> build, built |-> FALSE,
                     deployment |-> EmptyDeployment,
                     builtRollTo |-> FALSE, rollTo |-> EmptyDeployment,
                     builtService |-> FALSE, labels |-> NoLabels, inRun |-> FALSE,
                     service |-> createServiceConfig(DefaultConfig, NoLabels)]

BuildDeployment ==
    /\ ~harness.built
    /\ harness' = [harness EXCEPT
                      !.built = TRUE,
                      !.deployment = createDeploymentConfig(cfg, harness.now, harness.image,
                                                            harness.build)]
    /\ UNCHANGED program

\* updateDeploymentAndWait builds the manifest of the roll-to image
BuildRollTo ==
    /\ harness.built
    /\ ~harness.builtRollTo
    /\ harness' = [harness EXCEPT
                      !.builtRollTo = TRUE,
                      !.rollTo = createDeploymentConfig(cfg, harness.now, cfg.CheckImageURLRollTo,
                                                        harness.build)]
    /\ UNCHANGED program

\* createServiceAndWait builds the service manifest for the labels run()
\* hands it, those of the pod template of the deployment that became
\* available.
BuildServiceInRun ==
    /\ harness.built
    /\ harness.image # ""
    /\ ~harness.builtService
    /\ harness' = [harness EXCEPT
                      !.builtService = TRUE,
                      !.inRun = TRUE,
                      !.labels = harness.deployment.TemplateLabels,
                      !.service = createServiceConfig(cfg, harness.deployment.TemplateLabels)]
    /\ UNCHANGED program

\* createServiceConfig called with any label map
BuildService ==
    /\ ~harness.builtService
    /\ \E labels \in {NoLabels, "app" :> <<"other">>, DeploymentLabels(harness.now)} :
          harness' = [harness EXCEPT
                         !.builtService = TRUE,
                         !.labels = labels,
                         !.service = createServiceConfig(cfg, labels)]
    /\ UNCHANGED program

NextConfig == BuildDeployment \/ BuildRollTo \/ BuildServiceInRun \/ BuildService

SpecConfig == InitConfig /\ [][NextConfig]_vars

(***************************************************************************)
(* SpecCreate: createDeploymentAndWait called by run() with a              *)
(* configuration whose image is any string, the empty one included, and    *)
(* whose replica count is any accepted one.                                *)
(***************************************************************************)
InitCreate ==
    /\ cfg \in {[DefaultConfig EXCEPT !.CheckImageURL = image,
                                      !.CheckDeploymentReplicas = replicas] :
                   image \in Images, replicas \in ReplicaInputs}
    /\ obj \in {[k \in Kinds |-> IF k = "deployment" THEN o ELSE "absent"] :
                   o \in {"absent", "present"}}
    /\ svcIP = ""
    /\ depGen = IF obj["deployment"] = "present" THEN 1 ELSE 0
    /\ ctxDone = FALSE
    /\ pc = "cd_create"
    /\ loc = InitLoc
    /\ hpc = "off"
    /\ cl = [t \in Threads |-> IdleCleanup]
    /\ proc = InitProc
    /\ obs = InitObs
    /\ harness = InitHarness

NextCreate ==
    \/ createDeploymentAndWait
    \/ cleanup("main")
    \/ CtxExpire

SpecCreate == InitCreate /\ [][NextCreate]_vars

(***************************************************************************)
(* SpecUpdate: updateDeploymentAndWait called by rollDeploymentAndVerify    *)
(* with a configuration whose roll-to image is any string, the empty one    *)
(* included, and whose replica count is any accepted one.  The deployment   *)
(* of the run is stored with its first generation, or is gone.              *)
(***************************************************************************)
InitUpdate ==
    /\ cfg \in {[DefaultConfig EXCEPT !.CheckImageURLRollTo = image,
                                      !.CheckDeploymentReplicas = replicas] :
                   image \in Images, replicas \in ReplicaInputs}
    /\ obj \in {[k \in Kinds |-> IF k = "deployment" THEN o ELSE "present"] :
                   o \in {"absent", "present"}}
    /\ svcIP \in IPs
    /\ depGen = IF obj["deployment"] = "present" THEN 1 ELSE 0
    /\ ctxDone = FALSE
    /\ pc = "ud_get"
    /\ loc = InitLoc
    /\ hpc = "off"
    /\ cl = [t \in Threads |-> IdleCleanup]
    /\ proc = InitProc
    /\ obs = InitObs
    /\ harness = InitHarness

NextUpdate ==
    \/ updateDeploymentAndWait
    \/ cleanup("main")
    \/ CtxExpire

SpecUpdate == InitUpdate /\ [][NextUpdate]_vars

(***************************************************************************)
(* parseConfig: the replica count, the time limit and the shutdown grace   *)
(* period, from the environment and the injected check deadline.  An       *)
(* environment value is the sequence of its characters, << >> when unset;  *)
(* durations and times are in milliseconds, and parseConfig runs at time 0.*)
(***************************************************************************)
DigitValue ==
    ("0" :> 0) @@ ("1" :> 1) @@ ("2" :> 2) @@ ("3" :> 3) @@ ("4" :> 4) @@
    ("5" :> 5) @@ ("6" :> 6) @@ ("7" :> 7) @@ ("8" :> 8) @@ ("9" :> 9)

RECURSIVE DigitsValue(_)
DigitsValue(s) ==
    IF s = << >> THEN 0 ELSE 10 * DigitsValue(SubSeq(s, 1, Len(s) - 1)) + DigitValue[s[Len(s)]]

\* strconv.Atoi: an optional sign and then digits only, at least one
Atoi(s) ==
    LET signed == s # << >> /\ s[1] \in {"-", "+"}
        digits == IF signed THEN Tail(s) ELSE s IN
    IF digits = << >> \/ \E i \in 1..Len(digits) : digits[i] \notin DOMAIN DigitValue
    THEN [err |-> TRUE, value |-> 0]
    ELSE [err |-> FALSE,
          value |-> IF signed /\ s[1] = "-" THEN 0 - DigitsValue(digits) ELSE DigitsValue(digits)]

\* The milliseconds in one unit of time.ParseDuration.
UnitMilliseconds == (<<"m", "s">> :> 1) @@ (<<"s">> :> 1000) @@ (<<"m">> :> 60000)

\* time.ParseDuration of a whole number followed by one unit (the inputs
\* drawn hold no fraction and no second number)
ParseDuration(s) ==
    LET number == SelectSeq(s, LAMBDA c : c \in DOMAIN DigitValue \cup {"-", "+"})
        unit == SelectSeq(s, LAMBDA c : c \notin DOMAIN DigitValue \cup {"-", "+"})
        parsed == Atoi(number) IN
    IF parsed.err \/ unit \notin DOMAIN UnitMilliseconds \/ s # number \o unit
    THEN [err |-> TRUE, value |-> 0]
    ELSE [err |-> FALSE, value |-> parsed.value * UnitMilliseconds[unit]]

\* parseConfig(): (cfg, err).  `deadline` is what checkclient.GetDeadline
\* returned: an error, or the time of the deadline.
parseConfig(env, deadline) ==
    LET replicaValue == Atoi(env.CHECK_DEPLOYMENT_REPLICAS)
        durationValue == ParseDuration(env.SHUTDOWN_GRACE_PERIOD)
        replicas == IF env.CHECK_DEPLOYMENT_REPLICAS = << >>
                    THEN defaultCheckDeploymentReplicas ELSE replicaValue.value
        limit == IF deadline.err THEN defaultCheckTimeLimit ELSE deadline.at - (0 + 5000)
        grace == IF env.SHUTDOWN_GRACE_PERIOD = << >>
                 THEN defaultShutdownGracePeriod ELSE durationValue.value IN
    IF env.CHECK_DEPLOYMENT_REPLICAS # << >> /\ replicaValue.err
    THEN [err |-> "failed to parse CHECK_DEPLOYMENT_REPLICAS", cfg |-> DefaultConfig]
    ELSE IF env.CHECK_DEPLOYMENT_REPLICAS # << >> /\ replicaValue.value < 1
    THEN [err |-> "CHECK_DEPLOYMENT_REPLICAS must be >= 1", cfg |-> DefaultConfig]
    ELSE IF env.SHUTDOWN_GRACE_PERIOD # << >> /\ durationValue.err
    THEN [err |-> "failed to parse SHUTDOWN_GRACE_PERIOD", cfg |-> DefaultConfig]
    ELSE IF env.SHUTDOWN_GRACE_PERIOD # << >> /\ durationValue.value < 1000
    THEN [err |-> "SHUTDOWN_GRACE_PERIOD must be >= 1s", cfg |-> DefaultConfig]
    ELSE [err |-> "",
          cfg |-> [DefaultConfig EXCEPT !.CheckDeploymentReplicas = replicas,
                                        !.CheckTimeLimit = limit,
                                        !.ShutdownGracePeriod = grace]]

(***************************************************************************)
(* SpecParse: parseConfig applied to an environment and a check deadline.  *)
(*   harness.env, harness.deadline : the inputs                            *)
(*   harness.result                : what parseConfig returned, once       *)
(*                                   harness.parsed                        *)
(***************************************************************************)
ReplicaEnv == {<< >>, <<"0">>, <<"-", "1">>, <<"1">>, <<"3">>, <<"x">>}
GraceEnv ==
    {<< >>, <<"0", "s">>, <<"5", "0", "0", "m", "s">>, <<"1", "s">>, <<"4", "5", "s">>,
     <<"-", "5", "s">>, <<"s", "o", "o", "n">>}
Deadlines ==
    {[err |-> TRUE, at |-> 0]} \cup
    [err : {FALSE}, at : {0 - 10000, 0, 3000, 5000, 5001, 600000}]

InitParse ==
    /\ InitComponent
    /\ \E replicas \in ReplicaEnv, grace \in GraceEnv, deadline \in Deadlines :
          harness = [env |-> [CHECK_DEPLOYMENT_REPLICAS |-> replicas,
                              SHUTDOWN_GRACE_PERIOD |-> grace],
                     deadline |-> deadline, parsed |-> FALSE,
                     result |-> [err |-> "", cfg |-> DefaultConfig]]

ParseConfig ==
    /\ ~harness.parsed
    /\ harness' = [harness EXCEPT !.parsed = TRUE,
                                  !.result = parseConfig(harness.env, harness.deadline)]
    /\ UNCHANGED program

NextParse == ParseConfig

SpecParse == InitParse /\ [][NextParse]_vars

(***************************************************************************)
(* monitorDeploymentPodErrors and the wait that starts it.                 *)
(*                                                                         *)
(* SpecMonitor: one create or update wait with its pod-error monitor, in   *)
(* time.  Times are in milliseconds; time 0 is when the caller computed    *)
(* the deadline (run for create, rollDeploymentAndVerify for update), and  *)
(* the clock stops counting at MaxElapsed.                                 *)
(*   harness.stage, divisor, reason : which wait, and what it hands to the *)
(*                        monitor                                          *)
(*   harness.deadline   : the deadline handed to the wait                  *)
(*   harness.ctxAt      : when the context of the run expires              *)
(*   harness.now        : the clock                                        *)
(*   harness.pods       : what the pods of the deployment look like        *)
(*   harness.wait       : where the wait is; outcome, err: what it returned*)
(*   harness.cancelled  : the monitor's context was cancelled (deferred    *)
(*                        cancel of the wait)                              *)
(*   harness.chan       : podErrorChan, of capacity 1                      *)
(*   harness.mon        : where the monitor is; podErr: the error it is    *)
(*                        about to send; sleepLeft: what is left of its    *)
(*                        sleep                                            *)
(*   harness.gates, gateAt, gateOpen : the monitor evaluated its time      *)
(*                        condition, when it last did, and what it gave    *)
(*   harness.badSeen    : inspections in a row that found a pod in error   *)
(*   harness.sent       : sends on podErrorChan                            *)
(***************************************************************************)
PodStates == {"creating", "backoff", "failedEvent", "failed", "running"}
Budgets == {6000, 12000}
Leads == {0, 2000, 5000}

Max(a, b) == IF a > b THEN a ELSE b

\* A faulty variant of InspectionDue that lets the monitor inspect from the start.
InspectionDueAlways(divisor, remaining, limit) == TRUE

\* divisor > 0 && time.Until(deadline) < r.cfg.CheckTimeLimit/time.Duration(divisor)
InspectionDue(divisor, remaining, limit) ==
    divisor > 0 /\ remaining < limit \div divisor

\* A reason of a cluster event is the sequence of its characters.
UpperCase == <<"A", "B", "C", "E", "F", "I", "K", "L", "O", "P", "R", "S">>
LowerCase == <<"a", "b", "c", "e", "f", "i", "k", "l", "o", "p", "r", "s">>

\* strings.ToLower
ToLower(s) ==
    [i \in 1..Len(s) |->
        IF \E k \in 1..Len(UpperCase) : UpperCase[k] = s[i]
        THEN LowerCase[CHOOSE k \in 1..Len(UpperCase) : UpperCase[k] = s[i]]
        ELSE s[i]]

\* strings.Contains
Contains(s, substr) ==
    \E i \in 0..(Len(s) - Len(substr)) : SubSeq(s, i + 1, i + Len(substr)) = substr

\* A faulty variant of IsErrorReason that takes every reason for an error.
IsErrorReasonAny(eventReason) == TRUE

\* the reason, in lower case, contains "err", "failed" or "backoff"
IsErrorReason(eventReason) ==
    LET checkerReason == ToLower(eventReason) IN
    \/ Contains(checkerReason, <<"e", "r", "r">>)
    \/ Contains(checkerReason, <<"f", "a", "i", "l", "e", "d">>)
    \/ Contains(checkerReason, <<"b", "a", "c", "k", "o", "f", "f">>)

\* The loop over the events of a pod: the error event whose LastTimestamp is
\* after every one kept before it.  A LastTimestamp of 0 is the zero time.
NoEvent == [Reason |-> << >>, Message |-> "", LastTimestamp |-> 0]

\* A faulty variant of mostRecentErrorEvent that keeps the first error event
\* with a timestamp, whatever comes after it.
firstErrorEvent(events) ==
    LET found == {i \in 1..Len(events) : /\ IsErrorReason(events[i].Reason)
                                          /\ events[i].LastTimestamp > 0} IN
    IF found = {} THEN NoEvent
    ELSE events[CHOOSE i \in found : \A j \in found : i <= j]

RECURSIVE mostRecentErrorEvent(_)
mostRecentErrorEvent(events) ==
    IF events = << >> THEN NoEvent
    ELSE LET recent == mostRecentErrorEvent(SubSeq(events, 1, Len(events) - 1))
             checkerPodEvent == events[Len(events)] IN
         IF /\ IsErrorReason(checkerPodEvent.Reason)
            /\ checkerPodEvent.LastTimestamp > recent.LastTimestamp
         THEN checkerPodEvent
         ELSE recent

\* The loop over the container statuses of one pod, from the first on: the
\* error it returns, NoErr when it ends without one.
RECURSIVE ContainerStatusError(_, _, _)
ContainerStatusError(pod, statuses, reason) ==
    IF statuses = << >> THEN NoErr
    ELSE LET containerStat == Head(statuses) IN
         IF ~containerStat.Waiting \/ containerStat.Reason = ""
         THEN ContainerStatusError(pod, Tail(statuses), reason)
         ELSE IF ~containerStat.Ready /\ containerStat.Reason # "ContainerCreating"
         THEN {"pod state error"} \cup reason
         ELSE IF ~pod.EventsListed
         THEN {"failed to list events"}
         ELSE IF mostRecentErrorEvent(pod.Events).Reason # << >>
         THEN {"pod event error"} \cup reason
         ELSE ContainerStatusError(pod, Tail(statuses), reason)

\* The loop over the pods listed.
RECURSIVE PodListError(_, _)
PodListError(podList, reason) ==
    IF podList = << >> THEN NoErr
    ELSE LET pod == Head(podList)
             err == ContainerStatusError(pod, pod.ContainerStatuses, reason) IN
         IF err # NoErr THEN err
         ELSE IF pod.Phase = "Failed" THEN {"pod failed"} \cup reason
         ELSE PodListError(Tail(podList), reason)

\* checkDeploymentPodEvent: the error it returns.  `listed` is whether the
\* pod list call succeeded, podList what it returned.
checkDeploymentPodEvent(podList, listed, reason) ==
    IF ~listed THEN {"failed to list pods"} ELSE PodListError(podList, reason)

\* The pods behind each state of the pods of the monitored deployment.
PodsOf(pods) ==
    LET status(waiting, why) == <<[Waiting |-> waiting, Reason |-> why, Ready |-> ~waiting]>>
        pod(statuses, events, phase) ==
            <<[ContainerStatuses |-> statuses, Events |-> events, EventsListed |-> TRUE,
               Phase |-> phase]>> IN
    CASE pods = "creating" -> pod(status(TRUE, "ContainerCreating"), << >>, "Pending")
      [] pods = "backoff" -> pod(status(TRUE, "ImagePullBackOff"), << >>, "Pending")
      [] pods = "failedEvent" ->
            pod(status(TRUE, "ContainerCreating"),
                <<[Reason |-> <<"F", "a", "i", "l", "e", "d">>, Message |-> "", LastTimestamp |-> 1]>>,
                "Pending")
      [] pods = "failed" -> pod(status(FALSE, ""), << >>, "Failed")
      [] pods = "running" -> pod(status(FALSE, ""), << >>, "Running")

InitMonitor ==
    /\ cfg \in {[DefaultConfig EXCEPT !.CheckTimeLimit = limit] : limit \in Budgets}
    /\ obj = [k \in Kinds |-> IF k = "deployment" THEN "present" ELSE "absent"]
    /\ svcIP = ""
    /\ depGen = 1
    /\ ctxDone = FALSE
    /\ pc = "driver"
    /\ loc = InitLoc
    /\ hpc = "off"
    /\ cl = [t \in Threads |-> IdleCleanup]
    /\ proc = InitProc
    /\ obs = InitObs
    /\ \E stage \in {"create", "update"}, lead \in Leads, pods \in PodStates \ {"running"} :
          harness = [stage |-> stage,
                     divisor |-> IF stage = "create" THEN 2 ELSE 3,
                     reason |-> IF stage = "create" THEN errDeploymentCreatePod
                                                    ELSE errDeploymentUpdatePod,
                     deadline |-> 0 + cfg.CheckTimeLimit,
                     ctxAt |-> cfg.CheckTimeLimit - lead,
                     now |-> 0, pods |-> pods,
                     wait |-> "watch", outcome |-> "none", err |-> NoErr,
                     cancelled |-> FALSE, chan |-> << >>,
                     mon |-> "top", podErr |-> NoErr, sleepLeft |-> 0,
                     gates |-> FALSE, gateAt |-> 0, gateOpen |-> FALSE,
                     badSeen |-> 0, sent |-> 0]

\* A faulty variant of MonitorCtxCheck that never looks at its context.
MonitorCtxCheckIgnored ==
    /\ harness.mon = "top"
    /\ harness' = [harness EXCEPT !.mon = "gate"]
    /\ UNCHANGED program

\* select { case <-ctx.Done(): return; default: }
MonitorCtxCheck ==
    /\ harness.mon = "top"
    /\ harness' = [harness EXCEPT !.mon = IF harness.cancelled THEN "done" ELSE "gate"]
    /\ UNCHANGED program

\* the time condition: inspect, or go to sleep
MonitorGate ==
    /\ harness.mon = "gate"
    /\ LET due == InspectionDue(harness.divisor, harness.deadline - harness.now,
                                cfg.CheckTimeLimit) IN
          harness' = [harness EXCEPT !.gates = TRUE, !.gateAt = harness.now, !.gateOpen = due,
                                     !.mon = IF due THEN "inspect" ELSE "sleep",
                                     !.sleepLeft = IF due THEN @ ELSE 2000]
    /\ UNCHANGED program

\* podErr := r.checkDeploymentPodEvent(ctx, reason); the list call fails once
\* the monitor's context is cancelled
MonitorInspect ==
    /\ harness.mon = "inspect"
    /\ \E listed \in ApiOutcomes(~harness.cancelled) :
          LET podErr == checkDeploymentPodEvent(PodsOf(harness.pods), listed, harness.reason) IN
          harness' = [harness EXCEPT
                         !.podErr = podErr,
                         !.badSeen = IF listed /\ podErr # NoErr THEN @ + 1 ELSE 0,
                         !.mon = IF podErr # NoErr THEN "send" ELSE "sleep",
                         !.sleepLeft = IF podErr # NoErr THEN @ ELSE 2000]
    /\ UNCHANGED program

\* A faulty variant of MonitorSend that goes on monitoring after the send.
MonitorSendAndContinue ==
    /\ harness.mon = "send"
    /\ Len(harness.chan) < 1
    /\ harness' = [harness EXCEPT !.chan = Append(@, harness.podErr), !.sent = @ + 1,
                                  !.mon = "sleep", !.sleepLeft = 2000]
    /\ UNCHANGED program

\* resultChan <- podErr; return.  The send waits while the channel is full.
MonitorSend ==
    /\ harness.mon = "send"
    /\ Len(harness.chan) < 1
    /\ harness' = [harness EXCEPT !.chan = Append(@, harness.podErr), !.sent = @ + 1,
                                  !.mon = "done"]
    /\ UNCHANGED program

\* time.Sleep(time.Second * 2) is over
MonitorWake ==
    /\ harness.mon = "sleep"
    /\ harness.sleepLeft = 0
    /\ harness' = [harness EXCEPT !.mon = "top"]
    /\ UNCHANGED program

monitorDeploymentPodErrors ==
    \/ MonitorCtxCheck
    \/ MonitorGate
    \/ MonitorInspect
    \/ MonitorSend
    \/ MonitorWake

\* One second passes.
Tick ==
    /\ harness.now < MaxElapsed \/ harness.sleepLeft > 0
    /\ harness' = [harness EXCEPT !.now = Min(@ + 1000, MaxElapsed),
                                  !.sleepLeft = Max(@ - 1000, 0)]
    /\ UNCHANGED program

\* The pods change; nothing looks at them once the wait has returned.
PodsChange ==
    /\ ~harness.cancelled
    /\ \E pods \in PodStates \ {harness.pods} : harness' = [harness EXCEPT !.pods = pods]
    /\ UNCHANGED program

WaitReturn(outcome, err) ==
    harness' = [harness EXCEPT !.wait = "returned", !.outcome = outcome, !.err = err,
                               !.cancelled = TRUE]

\* Deployments.Watch, after the monitor was started
WaitWatch ==
    /\ harness.wait = "watch"
    /\ \E ok \in ApiOutcomes(harness.now < harness.ctxAt) :
          IF ok
          THEN harness' = [harness EXCEPT !.wait = "select"]
          ELSE WaitReturn("watch failed", {"failed to watch deployment"})
    /\ UNCHANGED program

\* select: a watch event that satisfies the predicate of the stage, which the
\* cluster sends once the pods run
WaitEvent ==
    /\ harness.wait = "select"
    /\ harness.pods = "running"
    /\ WaitReturn("workload", NoErr)
    /\ UNCHANGED program

\* select: case podErr := <-podErrorChan
WaitPodError ==
    /\ harness.wait = "select"
    /\ harness.chan # << >>
    /\ LET podErr == Head(harness.chan) IN
          IF podErr # NoErr
          THEN harness' = [harness EXCEPT
                              !.chan = Tail(@), !.wait = "returned", !.outcome = "pod error",
                              !.err = decorateDeploymentError("deployment " \o harness.stage, podErr),
                              !.cancelled = TRUE]
          ELSE harness' = [harness EXCEPT !.chan = Tail(@)]
    /\ UNCHANGED program

\* select: case <-ctx.Done(), and the cleanup it calls
WaitCtxDone ==
    /\ harness.wait = "select"
    /\ harness.now >= harness.ctxAt
    /\ harness' = [harness EXCEPT !.wait = "cleanup"]
    /\ UNCHANGED program

WaitAfterCleanup ==
    /\ harness.wait = "cleanup"
    /\ \E cleanupErr \in {NoErr, {"failed to delete"}} :
          WaitReturn("expired",
                     IF cleanupErr # NoErr
                     THEN {"failed to clean up after deployment " \o harness.stage} \cup cleanupErr
                     ELSE decorateDeploymentError("deployment " \o harness.stage,
                              {"context expired while waiting for deployment to " \o harness.stage}))
    /\ UNCHANGED program

NextMonitor ==
    \/ monitorDeploymentPodErrors
    \/ Tick
    \/ PodsChange
    \/ WaitWatch
    \/ WaitEvent
    \/ WaitPodError
    \/ WaitCtxDone
    \/ WaitAfterCleanup

SpecMonitor == InitMonitor /\ [][NextMonitor]_vars

\* The monitor is a goroutine the scheduler runs, the calls it makes return
\* and time passes.
SpecMonitorLive ==
    /\ SpecMonitor
    /\ WF_vars(monitorDeploymentPodErrors)
    /\ WF_vars(Tick)

(***************************************************************************)
(* SpecPods: checkDeploymentPodEvent applied to a list of pods.            *)
(*   harness.podList, harness.listed : what the pod list call returned     *)
(*   harness.result : what checkDeploymentPodEvent returned, once          *)
(*                    harness.inspected                                    *)
(***************************************************************************)
StatusInputs ==
    {[Waiting |-> FALSE, Reason |-> "", Ready |-> TRUE],
     [Waiting |-> TRUE, Reason |-> "", Ready |-> FALSE],
     [Waiting |-> TRUE, Reason |-> "ContainerCreating", Ready |-> FALSE],
     [Waiting |-> TRUE, Reason |-> "ImagePullBackOff", Ready |-> FALSE],
     [Waiting |-> TRUE, Reason |-> "CrashLoopBackOff", Ready |-> TRUE]}
EventInputs ==
    {[Reason |-> <<"B", "a", "c", "k", "O", "f", "f">>, Message |-> "back-off", LastTimestamp |-> 1],
     [Reason |-> <<"F", "a", "i", "l", "e", "d">>, Message |-> "failed", LastTimestamp |-> 0],
     [Reason |-> <<"P", "u", "l", "l", "e", "d">>, Message |-> "pulled", LastTimestamp |-> 1]}
SeqsUpTo(S, n) == UNION {[1..k -> S] : k \in 0..n}
PodInputs ==
    [ContainerStatuses : SeqsUpTo(StatusInputs, 2), Events : SeqsUpTo(EventInputs, 1),
     EventsListed : BOOLEAN, Phase : {"Pending", "Running", "Failed"}]
PodPairInputs ==
    [ContainerStatuses : SeqsUpTo(StatusInputs, 1), Events : SeqsUpTo(EventInputs, 1),
     EventsListed : {TRUE}, Phase : {"Pending", "Failed"}]

InitPods ==
    /\ InitComponent
    /\ \E podList \in SeqsUpTo(PodInputs, 1) \cup [1..2 -> PodPairInputs], listed \in BOOLEAN :
          harness = [podList |-> podList, listed |-> listed, inspected |-> FALSE,
                     result |-> NoErr]

InspectPods ==
    /\ ~harness.inspected
    /\ harness' = [harness EXCEPT
                      !.inspected = TRUE,
                      !.result = checkDeploymentPodEvent(harness.podList, harness.listed,
                                                         errDeploymentCreatePod)]
    /\ UNCHANGED program

NextPods == InspectPods

SpecPods == InitPods /\ [][NextPods]_vars

(***************************************************************************)
(* SpecEvents: the loop of checkDeploymentPodEvent over the events listed   *)
(* for one pod, and the test that follows it.                               *)
(*   harness.events   : deploymentPodEventList.Items                        *)
(*   harness.result   : eventReason, eventMsg and recentEventTime after the *)
(*                      loop, once harness.selected                         *)
(*   harness.reported : len(eventReason) != 0, the pod event error returned *)
(***************************************************************************)
MaxEvents == 3
MaxTimestamp == 2

EventReasons ==
    {<<"B", "a", "c", "k", "O", "f", "f">>, <<"F", "A", "I", "L", "E", "D">>,
     <<"I", "n", "s", "p", "e", "c", "t", "E", "r", "r">>, <<"P", "u", "l", "l", "e", "d">>,
     <<"F", "a", "i", "l">>}
ListedEvents ==
    [Reason : EventReasons, Message : {"msg"}, LastTimestamp : 0..MaxTimestamp]

InitEvents ==
    /\ InitComponent
    /\ \E events \in SeqsUpTo(ListedEvents, MaxEvents) :
          harness = [events |-> events, selected |-> FALSE, result |-> NoEvent,
                     reported |-> FALSE]

SelectEvent ==
    /\ ~harness.selected
    /\ LET recent == mostRecentErrorEvent(harness.events) IN
          harness' = [harness EXCEPT !.selected = TRUE,
                                     !.result = recent,
                                     !.reported = Len(recent.Reason) # 0]
    /\ UNCHANGED program

NextEvents == SelectEvent

SpecEvents == InitEvents /\ [][NextEvents]_vars

(***************************************************************************)
(* SpecClusterIP: getServiceClusterIP called with a service object while   *)
(* the service stored in the cluster changes.                              *)
(*   harness.calls   : calls made                                          *)
(*   harness.service : the argument of the last call                       *)
(*   harness.fetched, harness.stored : whether its Get call succeeded and  *)
(*                     the cluster IP stored when it was made              *)
(*   harness.result  : what it returned                                    *)
(***************************************************************************)
Addresses == {"", "10.0.0.1", "10.0.0.2"}
ServiceArguments == {[nil |-> TRUE, ClusterIP |-> ""]} \cup [nil : {FALSE}, ClusterIP : Addresses]

InitClusterIP ==
    /\ InitComponent
    /\ harness = [calls |-> 0, service |-> [nil |-> TRUE, ClusterIP |-> ""], fetched |-> FALSE,
                  stored |-> "", result |-> [ip |-> "", err |-> NoErr]]

\* The service of the configured name is created, deleted or given another
\* cluster IP.
StoredServiceChange ==
    /\ \E state \in {"absent", "present"}, ip \in Addresses :
          /\ state = "absent" => ip = ""
          /\ obj' = [obj EXCEPT !["service"] = state]
          /\ svcIP' = ip
    /\ UNCHANGED <<cfg, depGen, ctxDone, pc, loc, hpc, cl, proc, obs, harness>>

CallGetServiceClusterIP ==
    /\ harness.calls < MaxCalls
    /\ \E service \in ServiceArguments, ok \in ApiOutcomes(obj["service"] # "absent") :
          harness' = [calls |-> harness.calls + 1, service |-> service, fetched |-> ok,
                      stored |-> svcIP, result |-> ServiceClusterIP(service, ok, svcIP)]
    /\ UNCHANGED program

NextClusterIP ==
    \/ StoredServiceChange
    \/ CallGetServiceClusterIP

SpecClusterIP == InitClusterIP /\ [][NextClusterIP]_vars

(***************************************************************************)
(* SpecMerge: the object updateDeploymentAndWait submits, for the          *)
(* deployment createDeploymentAndWait of the same run created.             *)
(*   harness.now, harness.build : the time of the run and the build        *)
(*   harness.current   : the deployment the Get call returns               *)
(*   harness.submitted : the object handed to Update, once harness.merged  *)
(***************************************************************************)
ResourceVersions == {"41", "42"}

InitMerge ==
    /\ cfg \in {[DefaultConfig EXCEPT !.CheckDeploymentReplicas = replicas,
                                      !.CheckImageURL = image,
                                      !.CheckImageURLRollTo = rollTo] :
                   replicas \in ReplicaInputs, image \in Images \ {""}, rollTo \in Images \ {""}}
    /\ obj = [k \in Kinds |-> IF k = "deployment" THEN "present" ELSE "absent"]
    /\ svcIP = ""
    /\ depGen = 1
    /\ ctxDone = FALSE
    /\ pc = "driver"
    /\ loc = InitLoc
    /\ hpc = "off"
    /\ cl = [t \in Threads |-> IdleCleanup]
    /\ proc = InitProc
    /\ obs = InitObs
    /\ \E now \in 1..2, build \in FloatConversions, version \in ResourceVersions :
          LET current == createDeploymentConfig(cfg, now, cfg.CheckImageURL, build)
                            @@ [ResourceVersion |-> version] IN
          harness = [now |-> now, build |-> build, current |-> current, merged |-> FALSE,
                     submitted |-> current]

MergeUpdate ==
    /\ ~harness.merged
    /\ harness' = [harness EXCEPT
                      !.merged = TRUE,
                      !.submitted =
                          UpdatedDeployment(harness.current,
                              createDeploymentConfig(cfg, harness.now, cfg.CheckImageURLRollTo,
                                                     harness.build))]
    /\ UNCHANGED program

NextMerge == MergeUpdate

SpecMerge == InitMerge /\ [][NextMerge]_vars

(***************************************************************************)
(*                              PROPERTIES                                 *)
(***************************************************************************)

\* run() has returned err to main, which has not reported yet.
RunReturned(err) == pc = "runReturned" /\ loc.err = err

RunFailedFromCreation ==
    /\ pc = "runReturned"
    /\ obs.failure # NoErr
    /\ "create deployment" \in obs.calls

\* C1: when a step of run() from the workload creation onwards fails,
\* cleanup() has been invoked after the failure by the time run() returns,
\* and if that cleanup failed too the returned error holds both the original
\* failure and the cleanup failure.
C1_CleanupAfterEveryFailure ==
    RunFailedFromCreation =>
        /\ obs.cleanedAfterFailure
        /\ obs.cleanupFailed =>
              /\ obs.failure \subseteq loc.err
              /\ (ServiceErrText \cup DeploymentErrText) \cap loc.err # {}

\* The final cleanup() of run() saw, in a successful List, that kind k is gone.
FinalCleanupSawAbsent(k) ==
    /\ cl["main"].site = "run: final"
    /\ k \in cl["main"].seenAbsent

RequiredProbes == IF cfg.RollingUpdate THEN 2 ELSE 1

\* C2: run() returns nil, and main reports success, only after the workload
\* was observed available, the service was observed with a cluster IP, the
\* probe got a 200 (with a rolling update configured: the rollout was observed
\* complete and the second probe got a 200 too) and the final cleanup saw both
\* objects absent in a List.
C2_SuccessOnlyAfterFullCheck ==
    (RunReturned(NoErr) \/ (pc = "reported" /\ proc.verdict = "success")) =>
        /\ obs.available
        /\ obs.serviceReady
        /\ obs.probesOK = RequiredProbes
        /\ cfg.RollingUpdate => obs.rolled
        /\ \A k \in Kinds : FinalCleanupSawAbsent(k)

C2_Witness ==
    /\ pc = "reported"
    /\ proc.verdict = "success"
    /\ cfg.RollingUpdate
    /\ obs.probesOK = 2

C4_ReadinessGate ==
    /\ ~obs.ready =>
          /\ obs.calls = {}
          /\ cl["main"].site = "none"
          /\ cl["orphan"].site = "none"
    /\ (pc = "runReturned" /\ ~obs.ready) => loc.err = {"kuberhealthy is not ready"}

C4_Witness ==
    /\ pc = "runReturned"
    /\ ~obs.ready
    /\ obj["deployment"] = "present"
    /\ obj["service"] = "present"

\* The program counters at which run() is inside one of its steps.
InStep ==
    pc \in {"waitReady", "co_findService", "co_findDeployment", "co_select",
            "cd_create", "cd_watch", "cd_wait", "cs_create", "cs_watch", "cs_wait",
            "ip_get", "rq_enter", "rq_loop", "rq_return", "ud_get", "ud_update", "ud_watch",
            "ud_wait", "rv_getService", "r_cleanup"}

\* C5: the workload Create is submitted only after the orphan reconciliation
\* returned nil, the service Create only after an available event of the
\* workload, the first GET only after the service was observed with a cluster
\* IP and that IP was read, the deletes of the final cleanup only after the
\* last required probe succeeded; and run() is in no step once a step failed.
C5_StepOrder ==
    /\ "create deployment" \in obs.calls =>
          obs.orphans.how \in {"clean", "cleanup"} /\ obs.orphans.err = NoErr
    /\ "create service" \in obs.calls => obs.available
    /\ obs.probed => obs.serviceReady /\ obs.fetchedFor >= 1
    /\ cl["main"].site = "run: final" => obs.probesOK = RequiredProbes
    /\ obs.failure # NoErr => ~InStep

C5_Witness ==
    /\ cl["main"].site = "run: final"
    /\ cl["main"].attempted = Kinds
    /\ obs.orphans.how = "cleanup"
    /\ pc = "r_cleanup"

\* C6: the deployment Update is issued only with a rolling update configured
\* and after the first probe succeeded; once the rollout was observed
\* complete, the second probe is only made with an address fetched after the
\* rollout, and the final cleanup starts only after that probe succeeded.
C6_RollingUpdate ==
    /\ "update deployment" \in obs.calls => cfg.RollingUpdate /\ obs.probesOK >= 1
    /\ (obs.rolled /\ pc \in {"rq_enter", "rq_loop"}) => obs.fetchedFor = 2
    /\ (obs.rolled /\ obs.probesOK = 2) => obs.probedWith[2] = 2
    /\ (cfg.RollingUpdate /\ cl["main"].site = "run: final") =>
          /\ "update deployment" \in obs.calls
          /\ obs.rolled
          /\ obs.probesOK = 2

C6_Witness ==
    /\ cl["main"].site = "run: final"
    /\ obs.rolled
    /\ obs.probedWith[2] = 2


\* cleanup() of goroutine t has returned (its record stays until the next call).
CleanupDone(t) == cl[t].site # "none" /\ cl[t].pc \in {"done", "idle"}

ErrText(k) == IF k = "service" THEN ServiceErrText ELSE DeploymentErrText

\* C7: cleanup() attempts the service deletion first and the deployment
\* deletion after it, also when the service deletion failed; it returns nil
\* exactly when neither deletion failed, and otherwise an error that names
\* exactly the deletions that failed.
C7_CleanupDeletesBoth ==
    \A t \in Threads :
        /\ "deployment" \in cl[t].attempted =>
              "service" \in cl[t].attempted /\ cl[t].pc # "service"
        /\ CleanupDone(t) =>
              /\ cl[t].attempted = Kinds
              /\ cl[t].res = NoErr <=> cl[t].timedOut = {}
              /\ cl[t].res = UNION {ErrText(k) : k \in cl[t].timedOut}

C7_Witness ==
    /\ cl["main"].pc = "done"
    /\ cl["main"].timedOut = Kinds
    /\ cl["main"].attempted = Kinds
    /\ ServiceErrText \cup DeploymentErrText \subseteq cl["main"].res

\* A delete-and-wait of goroutine t has returned for a resource that was
\* absent at its first delete call, with the context not done.
ReturnedOnAbsent(t) ==
    /\ cl[t].pc \in Kinds
    /\ cl[t].dpc = "ret"
    /\ cl[t].entryAbsent
    /\ ~ctxDone

\* The second of two cleanup() calls in a row has returned, the first one
\* having returned nil, with the context not done.
SecondCleanupReturned ==
    /\ harness.prevDone
    /\ harness.prevRes = NoErr
    /\ cl["main"].pc = "done"
    /\ ~ctxDone

\* C8, as stated: on an already-absent resource, with the context not done,
\* delete-and-wait returns nil after one delete call and one verification
\* list; a second cleanup() after a successful one returns nil and leaves
\* the cluster as it was.
C8_AbsentOneDeleteOneList ==
    /\ \A t \in Threads :
          ReturnedOnAbsent(t) =>
              ~cl[t].derr /\ cl[t].nDel = 1 /\ cl[t].nList = 1
    /\ SecondCleanupReturned => cl["main"].res = NoErr /\ obj = harness.objAtCall

\* C8, amended: on an already-absent resource, with the context not done,
\* delete-and-wait returns nil after exactly one delete call, on the first
\* List that succeeds; a List that fails is made again after the sleep, so
\* more than one List call can precede the return.  The second cleanup()
\* returns nil and leaves the cluster as it was.
C8_AbsentOneDelete ==
    /\ \A t \in Threads :
          ReturnedOnAbsent(t) =>
              /\ ~cl[t].derr
              /\ cl[t].nDel = 1
              /\ cl[t].nListOk = 1
              /\ cl[t].nList >= 1
              /\ cl[t].lastList = "absent"
    /\ SecondCleanupReturned =>
          /\ cl["main"].res = NoErr
          /\ obj = harness.objAtCall
          /\ \A k \in Kinds : obj[k] = "absent"

C8_Witness ==
    /\ SecondCleanupReturned
    /\ harness.calls = 2
    /\ cl["main"].pc = "done"
    /\ cl["main"].entryAbsent
    /\ cl["main"].nList = 2

\* C9: delete-and-wait returns nil only when its latest List succeeded and
\* held no object of the name; after a List that held the object the next
\* thing it does is another delete call; after a List that failed it goes
\* round the loop again and can only return the timeout error; and it
\* returns the timeout error only when the context is done.
C9_DeleteAndWaitLoop ==
    \A t \in Threads :
        /\ (cl[t].dpc = "ret" /\ ~cl[t].derr) => cl[t].lastList = "absent"
        /\ cl[t].lastList = "listed" => cl[t].dpc = "redel"
        /\ cl[t].lastList = "redeleted" => cl[t].nDel >= 2
        /\ cl[t].lastList = "fail" =>
              /\ cl[t].dpc # "redel"
              /\ cl[t].dpc = "ret" => cl[t].derr
        /\ (cl[t].dpc = "ret" /\ cl[t].derr) => ctxDone
        /\ cl[t].seenAbsent \cap cl[t].timedOut = {}

C9_Witness ==
    /\ cl["main"].pc = "deployment"
    /\ cl["main"].dpc = "ret"
    /\ ~cl["main"].derr
    /\ cl["main"].nDel = 2
    /\ cl["main"].nList = 2

\* C10: cleanupOrphans that listed neither object starts no cleanup (so it
\* issues no delete) and returns nil; when it listed either it has started
\* cleanup() in a goroutine of its own, and returns that cleanup's result,
\* or the timeout error because the context is done, or the timeout error
\* because the two-minute timer fired; once it returned an error run()
\* creates nothing and returns.
C10_CleanupOrphans ==
    /\ obs.orphans.how = "clean" =>
          cl["orphan"].site = "none" /\ obs.orphans.err = NoErr
    /\ (pc \in {"co_select", "r_orphans"}) =>
          ((loc.serviceExists \/ loc.deploymentExists)
              <=> cl["orphan"].site = "cleanupOrphans")
    /\ pc = "co_select" => obs.orphans.how = "none"
    /\ pc = "r_orphans" =>
          /\ loc.err = obs.orphans.err
          /\ obs.orphans.how = "clean" <=>
                (~loc.serviceExists /\ ~loc.deploymentExists)
          /\ obs.orphans.how = "cleanup" =>
                CleanupDone("orphan") /\ loc.err = cl["orphan"].res
          /\ obs.orphans.how = "ctx" => ctxDone /\ loc.err = PreCheckTimeout
          /\ obs.orphans.how = "timer" => loc.err = PreCheckTimeout
          /\ obs.orphans.how # "none"
    /\ obs.orphans.err # NoErr =>
          /\ obs.calls = {}
          /\ pc \in {"r_orphans", "runReturned", "reported", "exited"}
          /\ cl["main"].site = "none"

C10_Witness ==
    /\ pc = "runReturned"
    /\ obs.orphans.how = "cleanup"
    /\ obs.orphans.err # NoErr
    /\ loc.err = obs.orphans.err


\* The handler goroutine has received the first signal.
InterruptReceived == hpc \in {"cancelled", "select"}

\* C11: once the first signal is received the context is cancelled before
\* the handler's cleanup starts; the process then always exits, and when the
\* handler ends it, it does so on the cleanup result, a second signal or the
\* grace timer, whichever comes first; the timer branch stays open whatever
\* state the cleanup is in.
C11_HandlerExits ==
    /\ [](InterruptReceived => ctxDone)
    /\ [](cl["intr"].site # "none" => cl["intr"].ctxAtCall /\ ctxDone)
    /\ []((proc.exited /\ proc.exitBy # "main") =>
             proc.exitBy \in {"interrupt cleanup done", "second interrupt", "grace period"})
    /\ []((hpc = "select" /\ ~proc.exited) => ENABLED HandleGraceTimeout)
    /\ (InterruptReceived ~> proc.exited)

C11_Witness ==
    /\ proc.exited
    /\ proc.exitBy = "grace period"
    /\ ctxDone
    /\ obj["deployment"] = "present"


\* The cleanup the interrupt handler started has delivered its result to the
\* handler's select.
HandlerCleanupCompleted == hpc = "select" /\ cl["intr"].pc = "done"

\* C12: the cleanup started by the interrupt handler is not cut short by
\* the context the handler cancelled: when it completes it has seen, in a
\* List, the service and the deployment absent, and returns nil.
C12_HandlerCleanupLeavesClean ==
    HandlerCleanupCompleted =>
        /\ cl["intr"].res = NoErr
        /\ cl["intr"].seenAbsent = Kinds
        /\ \A k \in Kinds : obj[k] = "absent"

\* createDeploymentAndWait (updateDeploymentAndWait) has returned after the
\* context expired during its wait on the watch.
CreateReturnedOnExpiry == pc = "r_createDeployment" /\ obs.failure = CreateExpired

UpdateReturnedOnExpiry == pc = "rv_updated" /\ obs.failure = UpdateExpired

\* C13: when the context expires during the wait of createDeploymentAndWait
\* or updateDeploymentAndWait, cleanup() has been called before the function
\* returns, and the error returned holds the original cause, and holds the
\* cleanup failure too when cleanup failed.
C13_ExpiryKeepsCause ==
    /\ CreateReturnedOnExpiry =>
          /\ cl["main"].site = "createDeploymentAndWait"
          /\ CleanupDone("main")
          /\ CreateExpired \subseteq loc.err
          /\ cl["main"].res \subseteq loc.err
    /\ UpdateReturnedOnExpiry =>
          /\ cl["main"].site = "updateDeploymentAndWait"
          /\ CleanupDone("main")
          /\ UpdateExpired \subseteq loc.err
          /\ cl["main"].res \subseteq loc.err


\* C14: of two runs that share the namespace and the configured names and
\* have different timestamps, neither deletes or inspects a deployment, a
\* service or a pod that the other one created.
C14_RunsIsolated ==
    \A r \in Runs :
        \A touched \in harness.deleted[r] \cup harness.inspected[r] : touched[2] = r


\* C15: deploymentAvailable(d, N) is true exactly when d is not nil, d has an
\* Available condition with status True, status.replicas,
\* status.availableReplicas and status.readyReplicas all equal N, and
\* status.observedGeneration is 1.
C15_AvailableIff ==
    harness.applied = "deploymentAvailable" =>
        (harness.result <=>
            /\ ~harness.d.nil
            /\ [type |-> "Available", status |-> "True"] \in harness.d.conditions
            /\ harness.d.replicas = harness.replicas
            /\ harness.d.availableReplicas = harness.replicas
            /\ harness.d.readyReplicas = harness.replicas
            /\ harness.d.observedGeneration = 1)

\* C16: rolledPodsAreReady(d, N) is true exactly when d is not nil,
\* status.replicas, status.updatedReplicas, status.availableReplicas and
\* status.readyReplicas all equal N, status.unavailableReplicas is below 1
\* and status.observedGeneration is above 1.
C16_RolledIff ==
    harness.applied = "rolledPodsAreReady" =>
        (harness.result <=>
            /\ ~harness.d.nil
            /\ harness.d.replicas = harness.replicas
            /\ harness.d.updatedReplicas = harness.replicas
            /\ harness.d.availableReplicas = harness.replicas
            /\ harness.d.readyReplicas = harness.replicas
            /\ harness.d.unavailableReplicas < 1
            /\ harness.d.observedGeneration > 1)


\* C17: requestServiceEndpoint returns nil only from an attempt that was
\* answered 200, and it returns at once on that attempt, with no further
\* GET (unless the process exits first); after any other answer (a 502, another status, a transport error) it
\* sleeps 5 x attempt seconds and goes to the next attempt; the k-th GET is
\* the one of attempt k, so k answers other than 200 followed by a 200 on
\* attempt k+1 give nil; and no call issues more than 10 GETs.
C17_ProbeLoop ==
    /\ [](pc = "rq_return" =>
            /\ loc.response = "200"
            /\ loc.err = NoErr
            /\ loc.gets = loc.attempt)
    /\ [](pc = "rq_loop" =>
            /\ loc.response # "200"
            /\ loc.attempt = loc.gets + 1
            /\ loc.gets > 0 => loc.response \in Responses /\ loc.slept = 5 * loc.gets)
    /\ [](loc.gets <= requestBackoffMaxRetries)
    /\ [][(pc = "rq_loop" /\ loc'.gets = loc.gets + 1) =>
            /\ loc'.response = "200" => pc' = "rq_return" /\ obs'.probesOK = obs.probesOK + 1
            /\ loc'.response # "200" =>
                  /\ pc' = "rq_loop"
                  /\ loc'.attempt = loc.attempt + 1
                  /\ loc'.slept = 5 * loc.attempt
                  /\ obs'.probesOK = obs.probesOK]_vars
    /\ [][(pc = "rq_return" /\ pc' # pc /\ ~proc'.exited) =>
            pc' = RequestReturnPc /\ loc'.err = NoErr /\ obs' = obs]_vars
    /\ [][(pc \in {"rq_enter", "rq_loop", "rq_cleanup"} /\ pc' = RequestReturnPc) =>
            loc'.err # NoErr]_vars

C17_Witness ==
    /\ pc = "rq_return"
    /\ loc.attempt = 6
    /\ loc.gets = 6
    /\ loc.slept = 25
    /\ loc.response = "200"
    /\ loc.err = NoErr


\* The failure exit requestServiceEndpoint has returned through, by the text
\* of the returned error.
ExitTaken ==
    {e \in {"context done", "window elapsed", "attempts exhausted"} :
        (IF e = "context done" THEN RequestCtxExpired
         ELSE IF e = "window elapsed" THEN RequestTimedOut
         ELSE RequestMaxRetries) \subseteq loc.err}

\* cleanup() was called from inside requestServiceEndpoint and has returned.
ProbeCleanupInvoked == cl["main"].site = "requestServiceEndpoint" /\ cl["main"].pc = "idle"

C20_OneContainer ==
    (harness.built /\ harness.image # "") =>
        /\ Len(harness.deployment.Containers) = 1
        /\ LET container == harness.deployment.Containers[1] IN
              /\ container.Name # ""
              /\ container.Image = harness.image
              /\ container.ImagePullPolicy # ""
              /\ Len(container.Ports) >= 1
              /\ \E i \in 1..Len(container.Ports) :
                    container.Ports[i].ContainerPort = cfg.CheckContainerPort
              /\ ~container.LivenessProbe.nil
              /\ ~container.ReadinessProbe.nil

C20_Witness ==
    /\ harness.built
    /\ harness.image = defaultCheckImageURLB
    /\ cfg.CheckContainerPort = 80
    /\ Len(harness.deployment.Containers) = 1
    /\ harness.deployment.Containers[1].Image = defaultCheckImageURLB


\* C21: for an image that is not empty and a replica count N >= 1 the built
\* deployment has a name and a namespace that are not empty, N replicas, a
\* max-surge and a max-unavailable of at least 1, and a selector that is not
\* nil and matches exactly the labels of the pod template, which are the
\* run's timestamp label and source = kuberhealthy; the manifest of the
\* roll-to image has the same labels and selector.
C21_CompleteDeployment ==
    LET N == cfg.CheckDeploymentReplicas
        d == harness.deployment IN
    (harness.built /\ harness.image # "" /\ N >= 1) =>
        /\ d.Name # ""
        /\ d.Namespace # ""
        /\ d.Replicas = N
        /\ d.Replicas >= 1
        /\ d.MaxSurge.IntVal >= 1
        /\ d.MaxUnavailable.IntVal >= 1
        /\ ~d.Selector.nil
        /\ d.Selector.MatchLabels = d.TemplateLabels
        /\ DOMAIN d.TemplateLabels = {"deployment-timestamp", "source"}
        /\ d.TemplateLabels["deployment-timestamp"] = <<"unix-", harness.now>>
        /\ d.TemplateLabels["source"] = <<"kuberhealthy">>
        /\ harness.builtRollTo =>
              /\ harness.rollTo.TemplateLabels = d.TemplateLabels
              /\ harness.rollTo.Selector = d.Selector


\* C22: the built service is of type ClusterIP, has the configured name and
\* namespace, which are not empty, has exactly one port, a TCP port that maps
\* the configured load-balancer port to the configured container port, and
\* has the label map it was given as its selector; in run() that map is the
\* one of the pod template of the deployment.
C22_ServiceConfig ==
    harness.builtService =>
        /\ harness.service.Type = "ClusterIP"
        /\ harness.service.Name = cfg.CheckServiceName
        /\ harness.service.Name # ""
        /\ harness.service.Namespace = cfg.CheckNamespace
        /\ harness.service.Namespace # ""
        /\ Len(harness.service.Ports) = 1
        /\ harness.service.Ports[1].Protocol = "TCP"
        /\ harness.service.Ports[1].Port = cfg.CheckLoadBalancerPort
        /\ harness.service.Ports[1].TargetPort.IntVal = cfg.CheckContainerPort
        /\ harness.service.Selector = harness.labels
        /\ harness.inRun => harness.service.Selector = harness.deployment.TemplateLabels

C22_Witness ==
    /\ harness.builtService
    /\ harness.inRun
    /\ cfg.CheckNamespace = "checks"
    /\ cfg.CheckLoadBalancerPort # cfg.CheckContainerPort
    /\ harness.service.Selector = DeploymentLabels(harness.now)


\* C23: with an empty configured image, createDeploymentAndWait submits no
\* Create call to the cluster and returns an error.
C23_EmptyImageNotSubmitted ==
    (cfg.CheckImageURL = "" /\ pc # "cd_create") =>
        /\ "create deployment" \notin obs.calls
        /\ pc = "r_createDeployment" => loc.err # NoErr


\* C24: a configuration that parseConfig returns without an error has a
\* replica count of at least 1, a time limit above zero and a shutdown grace
\* period above zero, whatever the environment and the injected deadline.
C24_ParsedConfigPositive ==
    (harness.parsed /\ harness.result.err = "") =>
        /\ harness.result.cfg.CheckDeploymentReplicas >= 1
        /\ harness.result.cfg.CheckTimeLimit > 0
        /\ harness.result.cfg.ShutdownGracePeriod > 0


\* C25: createDeploymentAndWait returns a workload only from a watch event
\* whose status has the Available condition True, all of replicas, available
\* and ready replicas equal to the configured count and observed generation
\* 1; updateDeploymentAndWait returns one only from an event whose replicas,
\* updated, available and ready replicas equal the configured count, with no
\* unavailable replica and an observed generation above 1, so never from an
\* event that still carries the status of generation 1.
C25_ReturnedFromSatisfyingEvent ==
    /\ (pc = "r_createDeployment" /\ loc.err = NoErr) =>
          /\ ~loc.deployment.nil
          /\ [type |-> "Available", status |-> "True"] \in loc.deployment.conditions
          /\ loc.deployment.replicas = cfg.CheckDeploymentReplicas
          /\ loc.deployment.availableReplicas = cfg.CheckDeploymentReplicas
          /\ loc.deployment.readyReplicas = cfg.CheckDeploymentReplicas
          /\ loc.deployment.observedGeneration = 1
    /\ (pc = "rv_updated" /\ loc.err = NoErr) =>
          /\ ~loc.deployment.nil
          /\ loc.deployment.replicas = cfg.CheckDeploymentReplicas
          /\ loc.deployment.updatedReplicas = cfg.CheckDeploymentReplicas
          /\ loc.deployment.availableReplicas = cfg.CheckDeploymentReplicas
          /\ loc.deployment.readyReplicas = cfg.CheckDeploymentReplicas
          /\ loc.deployment.unavailableReplicas = 0
          /\ loc.deployment.observedGeneration > 1

\* The update wait has returned a workload while the watch also offered
\* events of observed generation 1 with every count at the configured one.
C25_Witness ==
    /\ pc = "rv_updated"
    /\ loc.err = NoErr
    /\ ~loc.deployment.nil
    /\ depGen = 2
    /\ \E d \in DeploymentEvents(depGen) :
          /\ d.observedGeneration = 1
          /\ d.replicas = cfg.CheckDeploymentReplicas
          /\ d.updatedReplicas = cfg.CheckDeploymentReplicas
          /\ d.availableReplicas = cfg.CheckDeploymentReplicas
          /\ d.readyReplicas = cfg.CheckDeploymentReplicas
          /\ d.unavailableReplicas = 0

\* C26: when createDeploymentAndWait or updateDeploymentAndWait has returned,
\* it has returned either a workload and no error or no workload and an
\* error, never both and never neither; and when it returned the pod error,
\* the error names the stage ("deployment create failed" / "deployment
\* update failed") and the pod status, and no workload comes with it, also
\* when a satisfying watch event was on offer at the same time.
C26_ExactlyOneOutcome ==
    /\ pc \in {"r_createDeployment", "rv_updated"} =>
          (loc.deployment.nil <=> loc.err # NoErr)
    /\ (pc = "r_createDeployment" /\ errDeploymentCreatePod \subseteq loc.err) =>
          /\ loc.deployment.nil
          /\ {"deployment create failed", "pod status"} \subseteq loc.err
    /\ (pc = "rv_updated" /\ errDeploymentUpdatePod \subseteq loc.err) =>
          /\ loc.deployment.nil
          /\ {"deployment update failed", "pod status"} \subseteq loc.err

\* The update wait returned the pod error while the deployment was there and
\* reconciled, so that a satisfying watch event was on offer too.
C26_Witness ==
    /\ pc = "rv_updated"
    /\ errDeploymentUpdatePod \subseteq loc.err
    /\ obj["deployment"] = "present"
    /\ depGen = 2


\* C27: in the create wait the monitor inspects pods only when, as it
\* evaluated its time condition, more than half of the time limit had passed
\* since the deadline was computed; the create wait returns a pod error only
\* after that point, whatever the pods looked like before.
C27_CreateGateAfterHalf ==
    harness.stage = "create" =>
        /\ (harness.gates /\ harness.gateOpen) => 2 * harness.gateAt > cfg.CheckTimeLimit
        /\ harness.mon \in {"inspect", "send"} => 2 * harness.now > cfg.CheckTimeLimit
        /\ (harness.sent > 0 \/ harness.outcome = "pod error") =>
              2 * harness.now > cfg.CheckTimeLimit

\* In the first half of the budget of a create wait the pods are broken and
\* the monitor has evaluated its time condition and gone to sleep.
C27_Witness ==
    /\ harness.stage = "create"
    /\ harness.pods \in {"backoff", "failed"}
    /\ 2 * harness.now <= cfg.CheckTimeLimit
    /\ harness.gates
    /\ ~harness.gateOpen
    /\ harness.mon = "sleep"
    /\ harness.wait = "select"

\* C28: in the update wait the monitor inspects pods whenever it evaluates
\* its time condition after one third of the time limit has passed since the
\* update started.
C28_UpdateGateAfterThird ==
    (harness.stage = "update" /\ harness.gates /\ 3 * harness.gateAt > cfg.CheckTimeLimit) =>
        harness.gateOpen

\* C29: a wait returns a pod error only after the monitor found a pod in
\* error in 2 inspections in a row (create) or 3 (update).
C29_EscalatesAfterConsecutive ==
    (harness.outcome = "pod error" /\ harness.reason \subseteq harness.err) =>
        harness.badSeen >= (IF harness.stage = "create" THEN 2 ELSE 3)

C31_ReportsIffBroken ==
    (/\ harness.inspected
     /\ harness.listed
     /\ \A i \in 1..Len(harness.podList) : harness.podList[i].EventsListed) =>
        (harness.result # NoErr <=>
            \E i \in 1..Len(harness.podList) :
               LET pod == harness.podList[i] IN
               \/ \E c \in 1..Len(pod.ContainerStatuses) :
                     /\ pod.ContainerStatuses[c].Waiting
                     /\ pod.ContainerStatuses[c].Reason \notin {"", "ContainerCreating"}
               \/ \E e \in 1..Len(pod.Events) : IsErrorReason(pod.Events[e].Reason)
               \/ pod.Phase = "Failed")


\* C32: getServiceClusterIP returns the cluster IP stored in the cluster
\* when it is called, and no error, when its argument is not nil, the fetch
\* succeeds and the stored cluster IP is not empty, whatever cluster IP the
\* argument carries; in every other case it returns an error and the empty
\* address.
C32_StoredClusterIP ==
    harness.calls > 0 =>
        IF ~harness.service.nil /\ harness.fetched /\ harness.stored # ""
        THEN harness.result = [ip |-> harness.stored, err |-> NoErr]
        ELSE harness.result.ip = "" /\ harness.result.err # NoErr

\* A call with a service that carries one address returned the other one,
\* which the cluster stored.
C32_Witness ==
    /\ harness.calls > 0
    /\ ~harness.service.nil
    /\ harness.service.ClusterIP = "10.0.0.1"
    /\ harness.stored = "10.0.0.2"
    /\ harness.result.ip = "10.0.0.2"


\* C33: when createServiceAndWait has returned without an error, it has
\* returned a service whose cluster IP is not empty; when it has returned an
\* error it has returned no service; and when the context expired during its
\* wait, cleanup() was called from it and had returned before it returned,
\* and it returned an error and no service.
C33_ServiceFromAvailableEvent ==
    pc = "r_createService" =>
        /\ loc.err = NoErr => (~loc.service.nil /\ loc.service.ClusterIP # "")
        /\ loc.err # NoErr => loc.service.nil
        /\ obs.failure = ServiceExpired =>
              /\ cl["main"].site = "createServiceAndWait"
              /\ cl["main"].pc = "idle"
              /\ loc.err # NoErr
              /\ loc.service.nil

\* createServiceAndWait has returned after the context expired in its wait,
\* while the service it created was stored.
C33_Witness ==
    /\ pc = "r_createService"
    /\ obs.failure = ServiceExpired
    /\ "create service" \in obs.calls


\* C34: the object updateDeploymentAndWait submits has the name, namespace,
\* resource version and selector of the deployment it fetched, has the
\* container of the roll-to image and the replicas, strategy and
\* min-ready-seconds computed for the configuration, and the labels of its
\* template are the match labels of its selector.
C34_UpdateKeepsIdentity ==
    harness.merged =>
        /\ harness.submitted.Name = harness.current.Name
        /\ harness.submitted.Namespace = harness.current.Namespace
        /\ harness.submitted.ResourceVersion = harness.current.ResourceVersion
        /\ harness.submitted.Selector = harness.current.Selector
        /\ Len(harness.submitted.Containers) = 1
        /\ harness.submitted.Containers[1].Image = cfg.CheckImageURLRollTo
        /\ harness.submitted.Replicas = harness.current.Replicas
        /\ harness.submitted.hasStrategy
        /\ harness.submitted.MinReadySeconds = deploymentMinReadySeconds
        /\ ~harness.submitted.Selector.nil
        /\ harness.submitted.TemplateLabels = harness.submitted.Selector.MatchLabels

\* An object was submitted whose image differs from the one of the
\* deployment fetched.
C34_Witness ==
    /\ harness.merged
    /\ harness.submitted.Containers[1].Image # harness.current.Containers[1].Image
    /\ harness.submitted.ResourceVersion = "42"


\* C35: when a list call of findPreviousService or findPreviousDeployment
\* failed, cleanupOrphans returns an error (so that run() returns it and
\* creates nothing).  loc.listFailed holds from the failed list call until
\* run() has looked at what cleanupOrphans returned.
C35_ListFailureReturned ==
    (pc = "r_orphans" /\ loc.listFailed) => loc.err # NoErr


\* C36: a cleanup() entered with a context that was already done makes at
\* most one delete call per resource and no list call, and returns an error
\* that names the service and the deployment; so createDeploymentAndWait,
\* updateDeploymentAndWait and createServiceAndWait never return their plain
\* "context expired while waiting" error, and requestServiceEndpoint returns
\* its context error only as the one that says cleanup failed too.
C36_ExpiredCleanupFails ==
    /\ \A t \in Threads :
          cl[t].ctxAtCall =>
             /\ cl[t].nDel <= 1
             /\ cl[t].nList = 0
             /\ cl[t].dpc \notin {"list", "redel"}
             /\ cl[t].pc = "done" => cl[t].res = ServiceErrText \cup DeploymentErrText
    /\ pc = "r_createDeployment" => ~(CreateExpired \subseteq loc.err)
    /\ pc = "rv_updated" => ~(UpdateExpired \subseteq loc.err)
    /\ pc = "r_createService" => ~(ServiceExpired \subseteq loc.err)
    /\ (pc \in {"r_request", "rv_request"} /\ RequestCtxExpired \subseteq loc.err) =>
          "and cleanup failed" \in loc.err

\* updateDeploymentAndWait returned after the context expired in its wait,
\* with the error of the cleanup that failed.
C36_Witness ==
    /\ pc = "rv_updated"
    /\ obs.failure = UpdateExpired
    /\ cl["main"].ctxAtCall
    /\ "failed to clean up after deployment update" \in loc.err


\* C37: one call of requestServiceEndpoint issues at most 9 GETs: when the
\* attempt counter has reached 10 the window of requestBackoffTimeout seconds
\* has already elapsed, so no 10th GET is made and the function never returns
\* the error of the exhausted attempts.
C37_WindowBeforeRetries ==
    /\ loc.gets <= 9
    /\ (pc = "rq_loop" /\ loc.attempt >= requestBackoffMaxRetries) =>
          loc.elapsed > requestBackoffTimeout
    /\ loc.attempt <= requestBackoffMaxRetries
    /\ pc \in {"r_request", "rv_request"} => ~(RequestMaxRetries \subseteq loc.err)

\* Nine GETs were answered otherwise than with a 200 and the loop is about
\* to leave through the elapsed window.
C37_Witness ==
    /\ pc = "rq_loop"
    /\ loc.gets = 9
    /\ loc.attempt = 10
    /\ loc.slept = 45
    /\ ~ctxDone


\* C38: given that the run context carries the overall deadline, run()
\* always eventually returns (unless the interrupt handler ends the process
\* first): every wait loop leaves once the context is done.
C38_RunReturns == <>(obs.returned \/ proc.exited)


\* C39: when the roll-to image is the empty string, updateDeploymentAndWait
\* returns an error once it has fetched the current deployment: no Update
\* call is submitted, no watch and no pod monitor is started, no cleanup is
\* called, and the stored workload stays as it was.
C39_EmptyRollToNotSubmitted ==
    /\ []((cfg.CheckImageURLRollTo = "" /\ pc # "ud_get") =>
             /\ pc = "rv_updated"
             /\ loc.err \in {UpdateNoContainers, {"failed to fetch deployment for update"}}
             /\ "update deployment" \notin obs.calls
             /\ cl["main"].pc = "idle")
    /\ [][cfg.CheckImageURLRollTo = "" => UNCHANGED <<obj, svcIP, depGen>>]_vars

\* The current deployment was fetched and the manifest for the empty roll-to
\* image was refused.
C39_Witness ==
    /\ cfg.CheckImageURLRollTo = ""
    /\ pc = "rv_updated"
    /\ loc.err = UpdateNoContainers
    /\ obj["deployment"] = "present"
    /\ depGen = 1


\* C40: the pod event checkDeploymentPodEvent reports is, among the events of
\* the pod whose reason contains 'err', 'failed' or 'backoff' in any case,
\* one with the greatest last-timestamp (the first of them in the list); the
\* events with another reason do not influence what is reported or whether
\* anything is: the result is fixed by the matching events alone.
C40_MostRecentErrorEvent ==
    harness.selected =>
        LET events == harness.events
            matching == {i \in 1..Len(events) :
                            LET reason == ToLower(events[i].Reason) IN
                            \/ Contains(reason, <<"e", "r", "r">>)
                            \/ Contains(reason, <<"f", "a", "i", "l", "e", "d">>)
                            \/ Contains(reason, <<"b", "a", "c", "k", "o", "f", "f">>)}
            stamped == {i \in matching : events[i].LastTimestamp > 0} IN
        /\ harness.reported <=> stamped # {}
        /\ harness.reported =>
              \E i \in matching :
                 /\ harness.result = events[i]
                 /\ \A j \in matching : events[j].LastTimestamp <= events[i].LastTimestamp
                 /\ \A j \in matching : j < i => events[j].LastTimestamp < events[i].LastTimestamp

\* An older error event, then a later event with another reason, then the
\* most recent error event, which is the one reported.
C40_Witness ==
    /\ harness.selected
    /\ harness.reported
    /\ Len(harness.events) = 3
    /\ harness.events[1].Reason = <<"F", "A", "I", "L", "E", "D">>
    /\ harness.events[1].LastTimestamp = 1
    /\ harness.events[2].Reason = <<"P", "u", "l", "l", "e", "d">>
    /\ harness.events[2].LastTimestamp = 2
    /\ harness.events[3].Reason = <<"B", "a", "c", "k", "O", "f", "f">>
    /\ harness.events[3].LastTimestamp = 2
    /\ harness.result = harness.events[3]


====
